---- MODULE Spec2Model ----
(***************************************************************************)
(* Job-management layer and concurrent detection pipeline of the building  *)
(* detection API.                                                          *)
(*                                                                         *)
(* Threads of the process:                                                 *)
(*   - the event loop, which runs the `async def` request handlers one at  *)
(*     a time (no handler awaits, so handlers never interleave with each   *)
(*     other, only with the threads below);                                *)
(*   - the job executor's threads (ThreadPoolExecutor with                 *)
(*     max_workers = MAX_CONCURRENT_JOBS), each running                    *)
(*     DetectionService.process_detection_job for one job at a time;       *)
(*   - per running job, the tile pool of _execute_tile_processing          *)
(*     (num_workers = 2 threads running process_tile_batch).               *)
(* Every JobManager method body runs under job_lock and is one atomic      *)
(* step; reads of a JobInfo made outside the lock are separate steps.      *)
(***************************************************************************)
EXTENDS Integers, Sequences, FiniteSets, TLC

VARIABLES
    active_jobs,    \* JobManager.active_jobs: job_id -> JobInfo
    model,          \* the detector set at startup: "loaded" or "None"
    now,            \* the value time.time() returns
    work_queue,     \* job executor: submitted tasks no thread has taken yet
    worker,         \* job executor threads: position in process_detection_job
    tiles,          \* per executor thread: state of _execute_tile_processing
    pool,           \* per executor thread: the two tile threads
    req,            \* the request handler the event loop is executing
    resp,           \* the last response sent
    cancelled,      \* history: job ids whose cancel request was answered 200
    temp_dirs,      \* file system: jobs whose temp directory exists
    cleanup_warnings, \* log: jobs whose temp directory rmtree failed to remove
    merger,         \* one call of _process_union_find_merging
    session         \* one output directory and the detection runs on it

vars == <<active_jobs, model, now, work_queue, worker, tiles, pool, req, resp,
          cancelled, temp_dirs, cleanup_warnings, merger, session>>

----------------------------------------------------------------------------
(* Program constants *)

JOB_ID_MIN_LENGTH == 3
JOB_ID_MAX_LENGTH == 50
num_workers == 2
DEFAULT_BATCH_SIZE == 5

(* Bounds of the model *)

\* the setting max_concurrent_jobs (environment MAX_CONCURRENT_JOBS, any
\* positive integer): the capacity and the size of the job executor
MAX_CONCURRENT_JOBS == 1
MaxTime == 1        \* largest value of the clock
MaxTiles == 1       \* tiles a polygon is planned into
MaxPoolTiles == 2   \* tiles handed to one call of the tile processor
MaxBoxes == 1       \* boxes the detector returns for one tile

----------------------------------------------------------------------------
(* Optional values: None, or a one-element sequence *)

None == <<>>
Some(x) == <<x>>

(* Strings that are inspected character by character are sequences of      *)
(* one-character strings.                                                  *)

Repeat(c, n) == [i \in 1..n |-> c]

AsciiLetters ==
    {"a","b","c","d","e","f","g","h","i","j","k","l","m","n","o","p","q","r",
     "s","t","u","v","w","x","y","z","A","B","C","D","E","F","G","H","I","J",
     "K","L","M","N","O","P","Q","R","S","T","U","V","W","X","Y","Z"}
AsciiDigits == {"0","1","2","3","4","5","6","7","8","9"}
\* characters outside ASCII for which str.isalnum() is true, written by name:
\* U+00E9 (a letter) and U+0663 (a decimal digit)
UnicodeAlnum == {"U+00E9", "U+0663"}

isalnum(c) == c \in AsciiLetters \cup AsciiDigits \cup UnicodeAlnum

allowed_chars == AsciiLetters \cup AsciiDigits \cup {"-", "_"}

----------------------------------------------------------------------------
(* api/models/requests.py: the format check pydantic runs on job_id *)

\* A variant of validate_job_id_format without the check of every character
\* against allowed_chars; C8_JobIdFormat does not hold with it.
validate_job_id_format_ends_only(job_id) ==
    IF Len(job_id) = 0 \/ Len(job_id) < 3 \/ Len(job_id) > 50 THEN FALSE
    ELSE IF ~(isalnum(job_id[1]) /\ isalnum(job_id[Len(job_id)])) THEN FALSE
    ELSE TRUE

validate_job_id_format(job_id) ==
    IF Len(job_id) = 0 \/ Len(job_id) < 3 \/ Len(job_id) > 50 THEN FALSE
    ELSE IF ~(isalnum(job_id[1]) /\ isalnum(job_id[Len(job_id)])) THEN FALSE
    ELSE IF ~(\A i \in 1..Len(job_id) : job_id[i] \in allowed_chars) THEN FALSE
    ELSE TRUE

(* PolygonRequest.validate_job_id_if_provided: TRUE when the request body  *)
(* passes; a ValueError makes FastAPI answer 422 before the handler runs.  *)
validate_job_id_if_provided(v) ==
    ~(v # None /\ ~validate_job_id_format(v[1]))

(* api/services/validation.py: the format check of the validation service *)

ValidationService_validate_job_id_format(job_id) ==
    IF Len(job_id) = 0 THEN FALSE
    ELSE IF Len(job_id) < JOB_ID_MIN_LENGTH THEN FALSE
    ELSE IF Len(job_id) > JOB_ID_MAX_LENGTH THEN FALSE
    ELSE IF ~(isalnum(job_id[1]) /\ isalnum(job_id[Len(job_id)])) THEN FALSE
    ELSE IF \E i \in 1..Len(job_id) :
                ~(isalnum(job_id[i]) \/ job_id[i] \in {"-", "_"}) THEN FALSE
    ELSE TRUE

----------------------------------------------------------------------------
(* api/models/job.py *)

JobStatus == {"queued", "processing", "completed", "failed", "cancelled"}

(* api/services/job_manager.py: each operator is the body of one method,   *)
(* executed under job_lock, as a function of the job table.                *)

create_job(jobs, job_id, polygon) ==
    LET job_info == [status           |-> "queued",
                     progress         |-> 0,
                     stage            |-> "Job queued for processing",
                     buildings_found  |-> 0,
                     end_time         |-> None,
                     error_message    |-> None,
                     polygon          |-> polygon,
                     result_data      |-> None]
    IN  [j \in DOMAIN jobs \cup {job_id} |->
            IF j = job_id THEN job_info ELSE jobs[j]]

get_job(jobs, job_id) ==
    IF job_id \in DOMAIN jobs THEN Some(jobs[job_id]) ELSE None

update_job_progress(jobs, job_id, progress, stage, buildings_found) ==
    IF job_id \in DOMAIN jobs
    THEN [jobs EXCEPT ![job_id] =
            [@ EXCEPT !.progress = progress,
                      !.stage = stage,
                      !.buildings_found = buildings_found,
                      !.status = "processing"]]
    ELSE jobs

\* A variant of complete_job that leaves the progress as it is;
\* C10_CompletedRecord does not hold with it.
complete_job_keeps_progress(jobs, job_id, result_data, time) ==
    IF job_id \in DOMAIN jobs
    THEN [jobs EXCEPT ![job_id] =
            [@ EXCEPT !.status = "completed",
                      !.stage = "Completed successfully",
                      !.end_time = Some(time),
                      !.result_data = Some(result_data)]]
    ELSE jobs

complete_job(jobs, job_id, result_data, time) ==
    IF job_id \in DOMAIN jobs
    THEN [jobs EXCEPT ![job_id] =
            [@ EXCEPT !.status = "completed",
                      !.progress = 100,
                      !.stage = "Completed successfully",
                      !.end_time = Some(time),
                      !.result_data = Some(result_data)]]
    ELSE jobs

fail_job(jobs, job_id, error_message, time) ==
    IF job_id \in DOMAIN jobs
    THEN [jobs EXCEPT ![job_id] =
            [@ EXCEPT !.status = "failed",
                      !.error_message = Some(error_message),
                      !.end_time = Some(time)]]
    ELSE jobs

cancel_job(jobs, job_id, time) ==
    IF job_id \in DOMAIN jobs
    THEN [jobs EXCEPT ![job_id] =
            [@ EXCEPT !.status = "cancelled",
                      !.stage = "Job cancelled by user",
                      !.end_time = Some(time),
                      !.error_message =
                          Some("Job was cancelled by user request")]]
    ELSE jobs

\* cleanup_old_jobs: the jobs with an end_time more than max_age_hours
\* before current_time are deleted.  The clock of the model counts hours
\* (time.time() counts seconds, 3600 to the hour); time.time() is never 0,
\* so `job.end_time` is true exactly when an end_time is set.
cleanup_old_jobs(jobs, max_age_hours, current_time) ==
    LET max_age_seconds == max_age_hours * 3600
        jobs_to_remove ==
            {job_id \in DOMAIN jobs :
                /\ jobs[job_id].end_time # None
                /\ (current_time - jobs[job_id].end_time[1]) * 3600
                       > max_age_seconds}
    IN  [job_id \in DOMAIN jobs \ jobs_to_remove |-> jobs[job_id]]

get_active_job_count(jobs) ==
    Cardinality({j \in DOMAIN jobs :
                    jobs[j].status \in {"queued", "processing"}})

\* A variant of is_job_id_available that finds every id available;
\* C7_DuplicateRejected does not hold with it.
is_job_id_available_always(jobs, job_id) == TRUE

is_job_id_available(jobs, job_id) == job_id \notin DOMAIN jobs

----------------------------------------------------------------------------
(* Inputs *)

\* custom job ids a client sends: well-formed ones ...
ValidIds ==
    { <<"a","_","b","-","c","1">>,
      <<"0","_","Z">>,
      Repeat("x", 50) }
\* ... and malformed ones
InvalidIds ==
    { <<>>,
      <<"a","b">>,
      Repeat("x", 51),
      <<"-","a","b","c">>,
      <<"a","b","c","_">>,
      <<"a","!","c","d">>,
      <<"a"," ","c">>,
      <<"U+00E9","b","c">>,
      <<"a","U+0663","c">> }
CustomIds == ValidIds \cup InvalidIds

\* the string uuid4 returns (it never returns the same string twice)
Uuids == { <<"u","u","i","d","-","4">> }

\* Spec runs jobs to their end, so its clients use one custom id that is
\* well-formed and one that is not, or none; SpecSubmit sends them all
JobX == <<"a","_","b","-","c","1">>
SpecJobIds == {None, Some(JobX), Some(<<"a","b">>)}
AllJobIds == {None} \cup {Some(i) : i \in CustomIds}

\* request polygons: a dict holding a Polygon, and a dict that is JSON but
\* holds no polygon (a FeatureCollection with no features)
PolygonInputs == {"polygon", "no_polygon"}

NoJob == <<>>
Idle == [op |-> "idle", job_id |-> None, polygon |-> "polygon", check |-> 0]
\* resp holds the answer to the latest request once it has been sent
NoResponse == [op |-> "none", code |-> 0, job_id |-> None, body |-> None]

Threads == 1..MAX_CONCURRENT_JOBS
TileThreads == 1..num_workers
\* callers of the tile processor: the executor threads, and 0 for the
\* event loop thread running the synchronous endpoint
Pipelines == 0..MAX_CONCURRENT_JOBS

IdleWorker ==
    [pc |-> "idle", job_id |-> NoJob, polygon |-> "polygon",
     temp_dir |-> FALSE, found |-> 0, raised |-> FALSE, tile_counts |-> None]
\* (raised: a stage from tile processing on has raised in this run;
\* tile_counts: once the tile stage has returned, len(tiles) and
\* total_buildings_so_far)
NoTiles ==
    [pc |-> "off", todo |-> <<>>, queue |-> <<>>, nbatches |-> 0, done |-> {},
     completed_batches |-> 0, all_detections |-> <<>>, model_lock |-> 0,
     tile_errors |-> {}, batch_errors |-> {}, tile_batches |-> <<>>]
\* (tile_errors, batch_errors: the tiles and the batch numbers of the
\* messages "Error processing tile" and "Batch generated an exception")
IdleTileThread == [pc |-> "idle", idx |-> 0, batch |-> <<>>, results |-> <<>>]

\* no merge call in progress, no detection session on disk
NoMerger == [pc |-> "none"]
NoSession == [pc |-> "none"]

Init ==
    /\ active_jobs = <<>>
    /\ model \in {"loaded", "None"}
    /\ now = 0
    /\ work_queue = <<>>
    /\ worker = [t \in Threads |-> IdleWorker]
    /\ tiles = [p \in Pipelines |-> NoTiles]
    /\ pool = [p \in Pipelines |-> [k \in TileThreads |-> IdleTileThread]]
    /\ req = Idle
    /\ resp = NoResponse
    /\ cancelled = {}
    /\ temp_dirs = {}
    /\ cleanup_warnings = {}
    /\ merger = NoMerger
    /\ session = NoSession

(* time.time() is non-decreasing *)
Tick ==
    /\ now < MaxTime
    /\ now' = now + 1
    /\ UNCHANGED <<active_jobs, model, work_queue, worker, tiles, pool, req,
                   resp, cancelled, temp_dirs, cleanup_warnings, merger, session>>

----------------------------------------------------------------------------
(* api/routers/detection.py: POST /detect/async.  The handler reads the     *)
(* active count under the lock, releases it, and later takes the lock      *)
(* again in is_job_id_available and create_job: two steps.                 *)

Respond(op, code, job_id) ==
    resp' = [op |-> op, code |-> code, job_id |-> job_id, body |-> None]

SubmitReceive(job_id, polygon) ==
    /\ req.op = "idle"
    /\ job_id = None => Uuids \ DOMAIN active_jobs # {}
    /\ IF ~validate_job_id_if_provided(job_id)
       THEN Respond("submit", 422, job_id) /\ UNCHANGED req
       ELSE IF model = "None"
       THEN Respond("submit", 503, job_id) /\ UNCHANGED req
       ELSE IF get_active_job_count(active_jobs) >= MAX_CONCURRENT_JOBS
       THEN Respond("submit", 429, job_id) /\ UNCHANGED req
       ELSE /\ req' = [op |-> "submit", job_id |-> job_id,
                       polygon |-> polygon, check |-> 0]
            /\ resp' = NoResponse
    /\ UNCHANGED <<active_jobs, model, now, work_queue, worker, tiles, pool,
                   cancelled, temp_dirs, cleanup_warnings, merger, session>>

(* validate_and_get_job_id, the GeoJSON load test, create_job and          *)
(* submit_job_to_background_processing.  load_geojson only parses the      *)
(* JSON it is given, so it raises on an I/O error alone (io_ok = FALSE).   *)
SubmitFinish(uuid, io_ok) ==
    /\ req.op = "submit"
    /\ uuid \in (IF req.job_id = None THEN Uuids \ DOMAIN active_jobs
                                     ELSE {NoJob})
    /\ LET job_id == IF req.job_id = None THEN uuid ELSE req.job_id[1]
       IN  IF req.job_id # None
              /\ ~ValidationService_validate_job_id_format(job_id)
           THEN Respond("submit", 400, req.job_id)
                /\ UNCHANGED <<active_jobs, work_queue>>
           ELSE IF req.job_id # None
                   /\ ~is_job_id_available(active_jobs, job_id)
           THEN Respond("submit", 409, req.job_id)
                /\ UNCHANGED <<active_jobs, work_queue>>
           ELSE IF ~io_ok
           THEN Respond("submit", 400, req.job_id)
                /\ UNCHANGED <<active_jobs, work_queue>>
           ELSE /\ active_jobs' = create_job(active_jobs, job_id, req.polygon)
                /\ work_queue' = Append(work_queue, job_id)
                /\ Respond("submit", 200, Some(job_id))
    /\ req' = Idle
    /\ UNCHANGED <<model, now, worker, tiles, pool, cancelled, temp_dirs, cleanup_warnings, merger, session>>

----------------------------------------------------------------------------
(* api/routers/jobs.py: DELETE /job/{job_id}.  The status check reads the   *)
(* job outside the lock; cancel_job takes the lock afterwards.             *)

Terminal(status) == status \in {"completed", "failed", "cancelled"}

CancelReceive(job_id) ==
    /\ req.op = "idle"
    /\ IF get_job(active_jobs, job_id) = None
       THEN Respond("cancel", 404, Some(job_id)) /\ UNCHANGED req
       ELSE IF Terminal(active_jobs[job_id].status)
       THEN Respond("cancel", 409, Some(job_id)) /\ UNCHANGED req
       ELSE /\ req' = [op |-> "cancel", job_id |-> Some(job_id),
                       polygon |-> "polygon", check |-> 0]
            /\ resp' = NoResponse
    /\ UNCHANGED <<active_jobs, model, now, work_queue, worker, tiles, pool,
                   cancelled, temp_dirs, cleanup_warnings, merger, session>>

CancelApply ==
    /\ req.op = "cancel"
    /\ active_jobs' = cancel_job(active_jobs, req.job_id[1], now)
    /\ Respond("cancel", 200, req.job_id)
    /\ cancelled' = cancelled \cup {req.job_id[1]}
    /\ req' = Idle
    /\ UNCHANGED <<model, now, work_queue, worker, tiles, pool, temp_dirs, cleanup_warnings, merger, session>>

----------------------------------------------------------------------------
(* api/routers/jobs.py: GET /job/{job_id}/result and GET /job/{job_id}.    *)
(* get_job returns the JobInfo object itself; the handler then reads       *)
(* job.status once per comparison, without the lock, so every comparison   *)
(* is a step of its own (req.check is the comparison to make next).        *)

\* the comparisons of get_job_result in program order, with the status
\* code each answers when it matches
ResultChecks ==
    << [status |-> "queued",     code |-> 202],
       [status |-> "processing", code |-> 202],
       [status |-> "failed",     code |-> 422],
       [status |-> "cancelled",  code |-> 410] >>

\* job = job_manager.get_job(job_id); if job is None: 404
ResultReceive(job_id) ==
    /\ req.op = "idle"
    /\ IF get_job(active_jobs, job_id) = None
       THEN Respond("result", 404, Some(job_id)) /\ UNCHANGED req
       ELSE /\ req' = [op |-> "result", job_id |-> Some(job_id),
                       polygon |-> "polygon", check |-> 1]
            /\ resp' = NoResponse
    /\ UNCHANGED <<active_jobs, model, now, work_queue, worker, tiles, pool,
                   cancelled, temp_dirs, cleanup_warnings, merger, session>>

\* one `if job.status == ...: raise HTTPException(...)`
ResultCheck ==
    /\ req.op = "result"
    /\ req.check \in DOMAIN ResultChecks
    /\ IF active_jobs[req.job_id[1]].status = ResultChecks[req.check].status
       THEN Respond("result", ResultChecks[req.check].code, req.job_id)
            /\ req' = Idle
       ELSE req' = [req EXCEPT !.check = @ + 1] /\ UNCHANGED resp
    /\ UNCHANGED <<active_jobs, model, now, work_queue, worker, tiles, pool,
                   cancelled, temp_dirs, cleanup_warnings, merger, session>>

\* if job.status != JobStatus.COMPLETED: 500; otherwise the response is
\* built from job.request_params.get('result_data', {})
ResultFinish ==
    /\ req.op = "result"
    /\ req.check = Len(ResultChecks) + 1
    /\ LET job == active_jobs[req.job_id[1]]
       IN  IF job.status # "completed"
           THEN Respond("result", 500, req.job_id)
           ELSE resp' = [op |-> "result", code |-> 200, job_id |-> req.job_id,
                         body |-> job.result_data]
    /\ req' = Idle
    /\ UNCHANGED <<active_jobs, model, now, work_queue, worker, tiles, pool,
                   cancelled, temp_dirs, cleanup_warnings, merger, session>>

\* get_job_status: 404 for an unknown id, otherwise the job's fields
StatusRequest(job_id) ==
    /\ req.op = "idle"
    /\ LET job == get_job(active_jobs, job_id)
       IN  IF job = None
           THEN Respond("status", 404, Some(job_id))
           ELSE resp' = [op |-> "status", code |-> 200,
                         job_id |-> Some(job_id),
                         body |-> Some([status |-> job[1].status,
                                        progress |-> job[1].progress])]
    /\ UNCHANGED <<active_jobs, model, now, work_queue, worker, tiles, pool,
                   req, cancelled, temp_dirs, cleanup_warnings, merger, session>>

----------------------------------------------------------------------------
(* api/services/detection.py: process_detection_job, run by a thread of    *)
(* the job executor, with detect_buildings_with_progress inlined.          *)

\* a free executor thread takes the oldest submitted task (the threads are
\* interchangeable: the free thread of lowest number takes it)
RunnerStart(t) ==
    /\ worker[t].pc = "idle"
    /\ \A u \in 1..(t - 1) : worker[u].pc # "idle"
    /\ work_queue # <<>>
    /\ worker' = [worker EXCEPT ![t] =
                    [IdleWorker EXCEPT !.pc = "get_job",
                                       !.job_id = Head(work_queue)]]
    /\ work_queue' = Tail(work_queue)
    /\ UNCHANGED <<active_jobs, model, now, tiles, pool, req, resp, cancelled, temp_dirs, cleanup_warnings, merger, session>>

\* job = job_manager.get_job(job_id); if not job: return
RunnerGetJob(t) ==
    /\ worker[t].pc = "get_job"
    /\ LET job == get_job(active_jobs, worker[t].job_id)
       IN  worker' = [worker EXCEPT ![t] =
                IF job = None THEN IdleWorker
                ELSE [@ EXCEPT !.pc = "p5", !.polygon = job[1].polygon]]
    /\ UNCHANGED <<active_jobs, model, now, work_queue, tiles, pool, req, resp,
                   cancelled, temp_dirs, cleanup_warnings, merger, session>>

\* the update_job_progress calls with fixed arguments, in program order
UpdateCall ==
    [p5  |-> [progress |-> 5,  stage |-> "Initializing detection process",
              next |-> "mkdtemp"],
     p10 |-> [progress |-> 10, stage |-> "Created temporary files",
              next |-> "validate"],
     p15 |-> [progress |-> 15, stage |-> "Validated input polygon",
              next |-> "p20"],
     p20 |-> [progress |-> 20, stage |-> "Preparing for tile processing",
              next |-> "p25"],
     p25 |-> [progress |-> 25, stage |-> "Loading tiles and preparing detection",
              next |-> "plan"],
     p30 |-> [progress |-> 30, stage |-> "Found tiles to process",
              next |-> "p35"],
     p35 |-> [progress |-> 35, stage |-> "Processing tiles",
              next |-> "tiles"],
     p80 |-> [progress |-> 80, stage |-> "Processing and merging detections",
              next |-> "merge"],
     p85 |-> [progress |-> 85, stage |-> "Creating final results",
              next |-> "p90"],
     p90 |-> [progress |-> 90, stage |-> "Skipping visualization for background job",
              next |-> "save"],
     p95 |-> [progress |-> 95, stage |-> "Finalizing results",
              next |-> "complete"]]

Min(a, b) == IF a <= b THEN a ELSE b
Max(a, b) == IF a >= b THEN a ELSE b

RECURSIVE SumBoxes(_)
SumBoxes(dets) ==
    IF dets = <<>> THEN 0 ELSE Head(dets).boxes + SumBoxes(Tail(dets))

\* A variant of TileProgress without the offset of the tile stage;
\* C23_ProgressNonDecreasing does not hold with it.
TileProgress_without_offset(t) ==
    LET processed_tiles == Len(tiles[t].all_detections)
        total_tiles == Len(tiles[t].todo) + processed_tiles
    IN  Min((40 * processed_tiles) \div Max(total_tiles, 1), 75)

\* progress = 35 + int(40 * processed_tiles / max(total_tiles, 1)), capped
TileProgress(t) ==
    LET processed_tiles == Len(tiles[t].all_detections)
        total_tiles == Len(tiles[t].todo) + processed_tiles
    IN  Min(35 + ((40 * processed_tiles) \div Max(total_tiles, 1)), 75)

RunnerUpdate(t) ==
    /\ worker[t].pc \in DOMAIN UpdateCall \cup {"p75"}
    /\ LET pc == worker[t].pc
           call == IF pc = "p75"
                   THEN [progress |-> TileProgress(t),
                         stage |-> "Processed tiles", next |-> "p80"]
                   ELSE UpdateCall[pc]
           buildings_found ==
               IF pc = "p80" THEN SumBoxes(tiles[t].all_detections)
               ELSE IF pc \in {"p85", "p90", "p95"} THEN worker[t].found
               ELSE 0
       IN  /\ active_jobs' = update_job_progress(active_jobs, worker[t].job_id,
                                call.progress, call.stage, buildings_found)
           /\ worker' = [worker EXCEPT ![t].pc = call.next]
    /\ UNCHANGED <<model, now, work_queue, tiles, pool, req, resp, cancelled, temp_dirs, cleanup_warnings, merger, session>>

\* temp_dir = tempfile.mkdtemp(...); the polygon is written into it
RunnerMkdtemp(t) ==
    /\ worker[t].pc = "mkdtemp"
    /\ worker' = [worker EXCEPT ![t].pc = "p10", ![t].temp_dir = TRUE]
    /\ temp_dirs' = temp_dirs \cup {worker[t].job_id}
    /\ UNCHANGED <<active_jobs, model, now, work_queue, tiles, pool, req, resp,
                   cancelled, cleanup_warnings, merger, session>>

\* A variant of RunnerValidate that returns on an exception of
\* load_geojson without fail_job; C30_AcceptedJobEnds does not hold with it.
RunnerValidate_without_fail_job(t, io_ok) ==
    /\ worker[t].pc = "validate"
    /\ worker' = [worker EXCEPT ![t].pc = IF io_ok THEN "p15" ELSE "finally"]
    /\ UNCHANGED <<active_jobs, model, now, work_queue, tiles, pool, req, resp,
                   cancelled, temp_dirs, cleanup_warnings, merger, session>>

\* load_geojson(geojson_path) on the file just written; on an exception
\* fail_job("Invalid GeoJSON format") and return through finally
RunnerValidate(t, io_ok) ==
    /\ worker[t].pc = "validate"
    /\ IF io_ok
       THEN /\ worker' = [worker EXCEPT ![t].pc = "p15"]
            /\ UNCHANGED active_jobs
       ELSE /\ active_jobs' = fail_job(active_jobs, worker[t].job_id,
                                       "Invalid GeoJSON format", now)
            /\ worker' = [worker EXCEPT ![t].pc = "finally"]
    /\ UNCHANGED <<model, now, work_queue, tiles, pool, req, resp, cancelled, temp_dirs, cleanup_warnings, merger, session>>

\* _initialize_detection_session, _load_and_prepare_data: extract_polygon
\* raises ValueError when the GeoJSON holds no polygon; otherwise the
\* planner returns the tiles (ntiles of them) and _handle_resume_logic,
\* called with resume_from_saved = False, leaves them all to process
RunnerPlan(t, ntiles) ==
    /\ worker[t].pc = "plan"
    /\ IF worker[t].polygon = "no_polygon"
       THEN /\ worker' = [worker EXCEPT ![t].pc = "inner_except"]
            /\ UNCHANGED tiles
       ELSE /\ worker' = [worker EXCEPT ![t].pc = "p30"]
            /\ tiles' = [tiles EXCEPT ![t].todo = [i \in 1..ntiles |-> i]]
    /\ UNCHANGED <<active_jobs, model, now, work_queue, pool, req, resp,
                   cancelled, temp_dirs, cleanup_warnings, merger, session>>

----------------------------------------------------------------------------
(* src/core/polygon_detection.py: _execute_tile_processing, called by      *)
(* pipeline p with tiles[p].todo as tiles_to_process, and the tile threads *)
(* running process_tile_batch.  Tiles are numbered in the planner's order. *)

\* the batch_size values requests carry
BatchSizes == {1, DEFAULT_BATCH_SIZE}

Range(f) == {f[i] : i \in DOMAIN f}

\* [items[i:i + batch_size] for i in range(0, len(items), batch_size)]
create_batches(items, batch_size) ==
    [b \in 1..((Len(items) + batch_size - 1) \div batch_size) |->
        SubSeq(items, (b - 1) * batch_size + 1,
               Min(b * batch_size, Len(items)))]

\* with no tile to process the function returns at once; otherwise it makes
\* the batches, a new model_lock and a pool, and submits every batch
AtTileCall(p) == IF p = 0 THEN req.op = "sync" ELSE worker[p].pc = "tiles"

TilesSubmit(p, batch_size) ==
    /\ AtTileCall(p)
    /\ tiles[p].pc = "off"
    /\ IF tiles[p].todo = <<>>
       THEN tiles' = [tiles EXCEPT ![p].pc = "returned"]
       ELSE LET tile_batches == create_batches(tiles[p].todo, batch_size)
            IN  tiles' = [tiles EXCEPT
                    ![p].pc = "collect",
                    ![p].tile_batches = tile_batches,
                    ![p].queue = [b \in DOMAIN tile_batches |->
                                    [idx |-> b, batch |-> tile_batches[b]]],
                    ![p].nbatches = Len(tile_batches),
                    ![p].model_lock = 0]
    /\ UNCHANGED <<active_jobs, model, now, work_queue, worker, pool, req, resp,
                   cancelled, temp_dirs, cleanup_warnings, merger, session>>

\* a free tile thread takes the next submitted batch
PoolTake(p, k) ==
    /\ pool[p][k].pc = "idle"
    /\ tiles[p].queue # <<>>
    /\ pool' = [pool EXCEPT ![p][k] =
                  [pc |-> "fetch", idx |-> Head(tiles[p].queue).idx,
                   batch |-> Head(tiles[p].queue).batch, results |-> <<>>]]
    /\ tiles' = [tiles EXCEPT ![p].queue = Tail(@)]
    /\ UNCHANGED <<active_jobs, model, now, work_queue, worker, req, resp,
                   cancelled, temp_dirs, cleanup_warnings, merger, session>>

\* the tile thread moves on to the next tile of its batch, or returns
\* batch_results, which completes the batch's future; lock is the state
\* the thread leaves model_lock in, errors the tiles it reported an error of
NextTile(p, k, results, lock, errors) ==
    IF Len(pool[p][k].batch) > 1
    THEN /\ pool' = [pool EXCEPT ![p][k] =
                [@ EXCEPT !.pc = "fetch", !.batch = Tail(@),
                          !.results = results]]
         /\ tiles' = [tiles EXCEPT ![p].model_lock = lock,
                                   ![p].tile_errors = @ \cup errors]
    ELSE /\ pool' = [pool EXCEPT ![p][k] = IdleTileThread]
         /\ tiles' = [tiles EXCEPT
                ![p].model_lock = lock,
                ![p].tile_errors = @ \cup errors,
                ![p].done = @ \cup {[idx |-> pool[p][k].idx,
                                     results |-> results]}]

\* A variant of PoolFetch in which a failed fetch ends the batch: the
\* thread returns the results it has; C25_TileFailureIsolated does not hold
\* with it.
PoolFetch_ends_batch(p, k, ok) ==
    /\ pool[p][k].pc = "fetch"
    /\ IF ok
       THEN /\ pool' = [pool EXCEPT ![p][k].pc = "acquire"]
            /\ UNCHANGED tiles
       ELSE /\ pool' = [pool EXCEPT ![p][k] = IdleTileThread]
            /\ tiles' = [tiles EXCEPT
                   ![p].tile_errors = @ \cup {Head(pool[p][k].batch)},
                   ![p].done = @ \cup {[idx |-> pool[p][k].idx,
                                        results |-> pool[p][k].results]}]
    /\ UNCHANGED <<active_jobs, model, now, work_queue, worker, req, resp,
                   cancelled, temp_dirs, cleanup_warnings, merger, session>>

\* get_tile_image(tile): an exception is caught and the tile is skipped
PoolFetch(p, k, ok) ==
    /\ pool[p][k].pc = "fetch"
    /\ IF ok
       THEN /\ pool' = [pool EXCEPT ![p][k].pc = "acquire"]
            /\ UNCHANGED tiles
       ELSE NextTile(p, k, pool[p][k].results, tiles[p].model_lock,
                     {Head(pool[p][k].batch)})
    /\ UNCHANGED <<active_jobs, model, now, work_queue, worker, req, resp,
                   cancelled, temp_dirs, cleanup_warnings, merger, session>>

\* with model_lock: the lock is the one this call of
\* _execute_tile_processing created
PoolAcquire(p, k) ==
    /\ pool[p][k].pc = "acquire"
    /\ tiles[p].model_lock = 0
    /\ tiles' = [tiles EXCEPT ![p].model_lock = k]
    /\ pool' = [pool EXCEPT ![p][k].pc = "detect"]
    /\ UNCHANGED <<active_jobs, model, now, work_queue, worker, req, resp,
                   cancelled, temp_dirs, cleanup_warnings, merger, session>>

\* detect_buildings returns (boxes of them) or raises; either way the lock
\* is released, and the tile's result is appended unless it raised
PoolDetect(p, k, ok, boxes) ==
    /\ pool[p][k].pc = "detect"
    /\ LET results ==
             IF ok THEN Append(pool[p][k].results,
                               [tile |-> Head(pool[p][k].batch),
                                boxes |-> boxes])
             ELSE pool[p][k].results
       IN  NextTile(p, k, results, 0,
                    IF ok THEN {} ELSE {Head(pool[p][k].batch)})
    /\ UNCHANGED <<active_jobs, model, now, work_queue, worker, req, resp,
                   cancelled, temp_dirs, cleanup_warnings, merger, session>>

\* the finished future of batch number b
FutureOf(p, b) == CHOOSE f \in tiles[p].done : f.idx = b

\* as_completed yields the finished future of batch b: its tiles are saved
\* and appended
TilesCollect(p, b) ==
    /\ tiles[p].pc = "collect"
    /\ \E f \in tiles[p].done : f.idx = b
    /\ tiles' = [tiles EXCEPT
            ![p].done = @ \ {FutureOf(p, b)},
            ![p].all_detections = @ \o FutureOf(p, b).results,
            ![p].completed_batches = @ + 1]
    /\ UNCHANGED <<active_jobs, model, now, work_queue, worker, pool, req,
                   resp, cancelled, temp_dirs, cleanup_warnings, merger, session>>

\* as_completed yields the finished future of batch b, save_tile_results
\* raises for one of its tiles (os.makedirs of the tiles directory, which is
\* outside the function's own try): the OSError is caught by
\* `except (RuntimeError, ValueError, IOError)` before the extend is reached
TilesCollectRaises(p, b) ==
    /\ tiles[p].pc = "collect"
    /\ \E f \in tiles[p].done : f.idx = b
    /\ FutureOf(p, b).results # <<>>
    /\ tiles' = [tiles EXCEPT
            ![p].done = @ \ {FutureOf(p, b)},
            ![p].batch_errors = @ \cup {b},
            ![p].completed_batches = @ + 1]
    /\ UNCHANGED <<active_jobs, model, now, work_queue, worker, pool, req,
                   resp, cancelled, temp_dirs, cleanup_warnings, merger, session>>

\* every future was yielded: the pool is shut down and the list returned
TilesExit(p) ==
    /\ tiles[p].pc = "collect"
    /\ tiles[p].completed_batches = tiles[p].nbatches
    /\ tiles' = [tiles EXCEPT ![p].pc = "returned"]
    /\ UNCHANGED <<active_jobs, model, now, work_queue, worker, pool, req,
                   resp, cancelled, temp_dirs, cleanup_warnings, merger, session>>

----------------------------------------------------------------------------
(* _execute_tile_processing reads and writes neither the job table nor any *)
(* request state (process_detection_job passes no progress callback), so   *)
(* for the job-management layer the whole call is one step of the runner;  *)
(* its inside is the actions TilesSubmit .. TilesExit above.               *)

\* the lists the call can return: every tile at most once, in any order,
\* a tile whose fetch or detection raised missing
RECURSIVE TileResultLists(_)
TileResultLists(todo) ==
    {<<>>} \cup
    UNION { { <<[tile |-> x, boxes |-> b]>> \o rest :
                b \in 0..MaxBoxes, rest \in TileResultLists(todo \ {x}) } :
            x \in todo }

RunnerTiles(t, dets) ==
    /\ worker[t].pc = "tiles"
    /\ dets \in TileResultLists(Range(tiles[t].todo))
    /\ tiles' = [tiles EXCEPT ![t].all_detections = dets]
    /\ worker' = [worker EXCEPT ![t].pc = "p75"]
    /\ UNCHANGED <<active_jobs, model, now, work_queue, pool, req, resp,
                   cancelled, temp_dirs, cleanup_warnings, merger, session>>

----------------------------------------------------------------------------
(* The rest of detect_buildings_with_progress and process_detection_job *)

\* the tile stage or the merging phase raises (an exception that
\* _execute_tile_processing does not catch, or one of the merger)
RunnerRaise(t) ==
    /\ worker[t].pc \in {"tiles", "merge"}
    /\ worker' = [worker EXCEPT ![t].pc = "inner_except", ![t].raised = TRUE]
    /\ UNCHANGED <<active_jobs, model, now, work_queue, tiles, pool, req, resp,
                   cancelled, temp_dirs, cleanup_warnings, merger, session>>

\* _process_merging_phase / _process_no_merging_phase: the number of
\* buildings after merging, total_buildings_final
RunnerMerge(t, total_buildings_final) ==
    /\ worker[t].pc = "merge"
    /\ LET raw == SumBoxes(tiles[t].all_detections)
       IN  total_buildings_final \in (IF raw = 0 THEN {0} ELSE 1..raw)
    /\ worker' = [worker EXCEPT
            ![t].pc = "p85",
            ![t].found = total_buildings_final,
            ![t].tile_counts =
                Some([total_tiles |-> Len(tiles[t].todo),
                      total_buildings_so_far |->
                          SumBoxes(tiles[t].all_detections)])]
    /\ tiles' = [tiles EXCEPT ![t] = NoTiles]
    /\ UNCHANGED <<active_jobs, model, now, work_queue, pool, req, resp,
                   cancelled, temp_dirs, cleanup_warnings, merger, session>>

\* A variant of RunnerSave in which a run without buildings raises (as if
\* buildings_simple.json had to hold a building);
\* C21_EmptyJobCompletes does not hold with it.
RunnerSave_needs_building(t, io_ok, inside) ==
    /\ worker[t].pc = "save"
    /\ inside \in 0..worker[t].found
    /\ IF io_ok /\ worker[t].found > 0
       THEN worker' = [worker EXCEPT ![t].pc = "p95", ![t].found = inside]
       ELSE worker' = [worker EXCEPT ![t].pc = "inner_except",
                                        ![t].raised = ~io_ok]
    /\ UNCHANGED <<active_jobs, model, now, work_queue, tiles, pool, req, resp,
                   cancelled, temp_dirs, cleanup_warnings, merger, session>>

\* _create_results_payload, _save_output_files, _finalize_session, then
\* back in process_detection_job buildings_simple.json is read: inside of
\* the merged buildings are in the polygon.  Writing the file can raise.
RunnerSave(t, io_ok, inside) ==
    /\ worker[t].pc = "save"
    /\ inside \in 0..worker[t].found
    /\ IF io_ok
       THEN worker' = [worker EXCEPT ![t].pc = "p95", ![t].found = inside]
       ELSE worker' = [worker EXCEPT ![t].pc = "inner_except",
                                        ![t].raised = TRUE]
    /\ UNCHANGED <<active_jobs, model, now, work_queue, tiles, pool, req, resp,
                   cancelled, temp_dirs, cleanup_warnings, merger, session>>

RunnerComplete(t) ==
    /\ worker[t].pc = "complete"
    /\ active_jobs' = complete_job(active_jobs, worker[t].job_id,
                          [total_buildings |-> worker[t].found], now)
    /\ worker' = [worker EXCEPT ![t].pc = "finally"]
    /\ UNCHANGED <<model, now, work_queue, tiles, pool, req, resp, cancelled, temp_dirs, cleanup_warnings, merger, session>>

\* except Exception in detect_buildings_with_progress: fail_job, re-raise
RunnerInnerExcept(t) ==
    /\ worker[t].pc = "inner_except"
    /\ active_jobs' = fail_job(active_jobs, worker[t].job_id,
                               "Detection processing failed", now)
    /\ worker' = [worker EXCEPT ![t].pc = "outer_except"]
    /\ UNCHANGED <<model, now, work_queue, tiles, pool, req, resp, cancelled, temp_dirs, cleanup_warnings, merger, session>>

\* except Exception in process_detection_job: fail_job
RunnerOuterExcept(t) ==
    /\ worker[t].pc = "outer_except"
    /\ active_jobs' = fail_job(active_jobs, worker[t].job_id,
                               "Detection processing failed", now)
    /\ worker' = [worker EXCEPT ![t].pc = "finally"]
    /\ UNCHANGED <<model, now, work_queue, tiles, pool, req, resp, cancelled, temp_dirs, cleanup_warnings, merger, session>>

\* A variant of RunnerFinally that returns without removing the temp
\* directory; C12_TempDirGoneUnlessLogged does not hold with it.
RunnerFinally_keeps_dir(t, rm_ok) ==
    /\ worker[t].pc = "finally"
    /\ worker' = [worker EXCEPT ![t] = IdleWorker]
    /\ tiles' = [tiles EXCEPT ![t] = NoTiles]
    /\ UNCHANGED <<active_jobs, model, now, work_queue, pool, req, resp,
                   cancelled, temp_dirs, cleanup_warnings, merger, session>>

\* finally: if temp_dir and os.path.exists(temp_dir): shutil.rmtree(temp_dir)
\* with an exception of rmtree (rm_ok = FALSE) caught and logged; the
\* executor thread is free again
RunnerFinally(t, rm_ok) ==
    /\ worker[t].pc = "finally"
    /\ LET exists == worker[t].temp_dir /\ worker[t].job_id \in temp_dirs
       IN  /\ temp_dirs' = IF exists /\ rm_ok
                           THEN temp_dirs \ {worker[t].job_id}
                           ELSE temp_dirs
           /\ cleanup_warnings' = IF exists /\ ~rm_ok
                                  THEN cleanup_warnings \cup {worker[t].job_id}
                                  ELSE cleanup_warnings
    /\ worker' = [worker EXCEPT ![t] = IdleWorker]
    /\ tiles' = [tiles EXCEPT ![t] = NoTiles]
    /\ UNCHANGED <<active_jobs, model, now, work_queue, pool, req, resp,
                   cancelled, merger, session>>

----------------------------------------------------------------------------
(* src/core/polygon_detection.py: the merger's union pass.  Detections are *)
(* numbered 0..n-1 as in the source; a connection is the tuple             *)
(* <<i, j, score, phase>> that _find_all_connections records.              *)

MaxDetections == 3

\* connection_type: 1 IoU overlap, 2 boundary related, 3 proximity/touching
Phases == {1, 2, 3}
Scores == {0, 1}
\* allowed_merge_phases: the default, which is also what the pipeline passes
AllowedPhaseInputs == {{1, 2}}

\* UnionFind.__init__
UnionFind(n) ==
    [parent |-> [i \in 0..(n - 1) |-> i],
     rank |-> [i \in 0..(n - 1) |-> 0],
     components |-> n]

\* UnionFind.find, with its path compression: the new structure and the root
RECURSIVE find(_, _)
find(uf, x) ==
    IF uf.parent[x] = x
    THEN [uf |-> uf, root |-> x]
    ELSE LET up == find(uf, uf.parent[x])
         IN  [uf |-> [up.uf EXCEPT !.parent[x] = up.root], root |-> up.root]

\* A variant of union that links y under x without looking up their roots;
\* C19_UnionFindComponents does not hold with it.
union_without_find(uf, x, y) ==
    IF x = y
    THEN [uf |-> uf, merged |-> FALSE]
    ELSE [uf |-> [uf EXCEPT !.parent[y] = x, !.components = @ - 1],
          merged |-> TRUE]

\* UnionFind.union, by rank: the new structure and the value returned
union(uf, x, y) ==
    LET fx == find(uf, x)
        fy == find(fx.uf, y)
        u == fy.uf
        root_x == fx.root
        root_y == fy.root
    IN  IF root_x = root_y
        THEN [uf |-> u, merged |-> FALSE]
        ELSE LET linked ==
                   IF u.rank[root_x] < u.rank[root_y]
                   THEN [u EXCEPT !.parent[root_x] = root_y]
                   ELSE IF u.rank[root_x] > u.rank[root_y]
                   THEN [u EXCEPT !.parent[root_y] = root_x]
                   ELSE [u EXCEPT !.parent[root_y] = root_x,
                                  !.rank[root_x] = @ + 1]
             IN  [uf |-> [linked EXCEPT !.components = @ - 1],
                  merged |-> TRUE]

\* UnionFind.get_components: the dictionary {root: [members]} as the list of
\* its items in insertion order, which is the order its users iterate in
RECURSIVE get_components_from(_, _, _)
get_components_from(uf, i, components) ==
    IF i \notin DOMAIN uf.parent
    THEN components
    ELSE LET f == find(uf, i)
             at == {p \in 1..Len(components) : components[p].root = f.root}
         IN  get_components_from(
                 f.uf, i + 1,
                 IF at = {}
                 THEN Append(components, [root |-> f.root, indices |-> <<i>>])
                 ELSE [components EXCEPT
                          ![CHOOSE p \in at : TRUE].indices = Append(@, i)])

get_components(uf) == get_components_from(uf, 0, <<>>)

\* the key of all_connections.sort: (phase, score)
ConnectionKeyLeq(a, b) == a[4] < b[4] \/ (a[4] = b[4] /\ a[3] <= b[3])

\* list.sort is stable: x goes after every element whose key is <= its key
RECURSIVE InsertConnection(_, _)
InsertConnection(sorted, x) ==
    IF sorted = <<>>
    THEN <<x>>
    ELSE IF ConnectionKeyLeq(Head(sorted), x)
    THEN <<Head(sorted)>> \o InsertConnection(Tail(sorted), x)
    ELSE <<x>> \o sorted

RECURSIVE sort_connections(_)
sort_connections(all_connections) ==
    IF all_connections = <<>>
    THEN <<>>
    ELSE InsertConnection(
             sort_connections(SubSeq(all_connections, 1,
                                     Len(all_connections) - 1)),
             all_connections[Len(all_connections)])

\* one iteration of the loop of _process_union_find_merging
union_if_allowed(uf, connection, allowed_merge_phases) ==
    IF connection[4] \in allowed_merge_phases
    THEN union(uf, connection[1], connection[2]).uf
    ELSE uf

RECURSIVE union_pass(_, _, _)
union_pass(uf, connections, allowed_merge_phases) ==
    IF connections = <<>>
    THEN uf
    ELSE union_pass(union_if_allowed(uf, Head(connections),
                                     allowed_merge_phases),
                    Tail(connections), allowed_merge_phases)

\* _process_union_find_merging: the components after the union pass
_process_union_find_merging(all_connections, n_detections, allowed_merge_phases) ==
    get_components(union_pass(UnionFind(n_detections),
                              sort_connections(all_connections),
                              allowed_merge_phases))

\* the pairs (i, j), i < j, in the order of the loops of _find_all_connections
RECURSIVE DetectionPairs(_, _, _)
DetectionPairs(i, j, n) ==
    IF i + 1 >= n
    THEN <<>>
    ELSE IF j >= n
    THEN DetectionPairs(i + 1, i + 2, n)
    ELSE <<<<i, j>>>> \o DetectionPairs(i, j + 1, n)

\* what _analyze_polygon_pair may return for a pair: None or (score, phase)
ConnectionChoices == {None} \cup {<<s, p>> : s \in Scores, p \in Phases}

RECURSIVE RecordedConnections(_, _, _)
RecordedConnections(pairs, choice, k) ==
    IF k > Len(pairs)
    THEN <<>>
    ELSE (IF choice[k] = None
          THEN <<>>
          ELSE <<<<pairs[k][1], pairs[k][2], choice[k][1], choice[k][2]>>>>)
         \o RecordedConnections(pairs, choice, k + 1)

\* the lists _find_all_connections can return for n detections
ConnectionInputs(n) ==
    LET pairs == DetectionPairs(0, 1, n)
    IN  {RecordedConnections(pairs, choice, 1) :
            choice \in [1..Len(pairs) -> ConnectionChoices]}

\* a call of _process_union_find_merging, step by step
MergerSort ==
    /\ merger.pc = "start"
    /\ merger' = [merger EXCEPT
                     !.pc = "loop",
                     !.uf = UnionFind(merger.n_detections),
                     !.all_connections = sort_connections(@)]
    /\ UNCHANGED <<active_jobs, model, now, work_queue, worker, tiles, pool,
                   req, resp, cancelled, temp_dirs, cleanup_warnings, session>>

MergerConnection ==
    /\ merger.pc = "loop"
    /\ merger.processed_connections < Len(merger.all_connections)
    /\ LET connection ==
               merger.all_connections[merger.processed_connections + 1]
       IN  merger' = [merger EXCEPT
                         !.processed_connections = @ + 1,
                         !.uf = union_if_allowed(@, connection,
                                    merger.allowed_merge_phases)]
    /\ UNCHANGED <<active_jobs, model, now, work_queue, worker, tiles, pool,
                   req, resp, cancelled, temp_dirs, cleanup_warnings, session>>

MergerComponents ==
    /\ merger.pc = "loop"
    /\ merger.processed_connections = Len(merger.all_connections)
    /\ merger' = [merger EXCEPT !.pc = "done",
                                !.components = get_components(merger.uf)]
    /\ UNCHANGED <<active_jobs, model, now, work_queue, worker, tiles, pool,
                   req, resp, cancelled, temp_dirs, cleanup_warnings, session>>

----------------------------------------------------------------------------
(* src/core/polygon_detection.py and utils/building_export.py: from the    *)
(* raw per-tile detections to the emitted buildings list.  Lengths are in  *)
(* tile pixels; a geographic rectangle is <<minx, miny, maxx, maxy>>, a    *)
(* centroid is kept doubled, <<minx + maxx, miny + maxy>>, and one pixel   *)
(* is 5e-9 degrees, so a doubled centroid c is c / 4 in units of 1e-8      *)
(* degrees, the precision of the emitted coordinates.  Confidences are     *)
(* in hundredths.                                                          *)

MaxGridTiles == 2

img_width == 256
img_height == 256
TileZoom == 18

Abs(a) == IF a < 0 THEN 0 - a ELSE a

\* the tiles of zoom 18 in one row, west to east; the id "z/x/y" is <<z, x, y>>
GridTiles == [i \in 1..MaxGridTiles |-> <<TileZoom, i, 0>>]

\* tile_utils.get_tile_bounds: (west, south, east, north)
get_tile_bounds(tile) ==
    <<(tile[2] - 1) * img_width, (0 - tile[3]) * img_height,
      tile[2] * img_width, (1 - tile[3]) * img_height>>

\* closed rectangles with a common point
RectIntersects(p, q) ==
    /\ Min(p[3], q[3]) >= Max(p[1], q[1])
    /\ Min(p[4], q[4]) >= Max(p[2], q[2])

\* tile_utils.get_tiles_for_polygon: the tiles whose bounds intersect the
\* polygon, in a fixed order
get_tiles_for_polygon(polygon) ==
    SelectSeq(GridTiles, LAMBDA t : RectIntersects(get_tile_bounds(t), polygon))

\* the pixel box of a tile as a geographic rectangle; y is flipped
BoxToGeo(bounds, bbox_coords) ==
    LET west == bounds[1]
        south == bounds[2]
        tile_width_deg == bounds[3] - bounds[1]
        tile_height_deg == bounds[4] - bounds[2]
        geo_x1 == west + (bbox_coords[1] * tile_width_deg) \div img_width
        geo_y1 == south + ((img_height - bbox_coords[4]) * tile_height_deg)
                              \div img_height
        geo_x2 == west + (bbox_coords[3] * tile_width_deg) \div img_width
        geo_y2 == south + ((img_height - bbox_coords[2]) * tile_height_deg)
                              \div img_height
    IN  <<Min(geo_x1, geo_x2), Min(geo_y1, geo_y2),
          Max(geo_x1, geo_x2), Max(geo_y1, geo_y2)>>

\* convert_tile_detections_to_shapely_polygons: one detection per box, in the
\* order of the list, its id "det_<counter>" kept as <<"det_", counter>>
RECURSIVE convert_from(_, _)
convert_from(all_tile_detections, detection_id_counter) ==
    IF all_tile_detections = <<>>
    THEN <<>>
    ELSE LET tile_detection == Head(all_tile_detections)
             n == Len(tile_detection.boxes)
         IN  [i \in 1..n |->
                 [id |-> <<"det_", detection_id_counter + i - 1>>,
                  polygon |-> BoxToGeo(tile_detection.bounds,
                                       tile_detection.boxes[i]),
                  confidence |->
                      IF i <= Len(tile_detection.confidences)
                      THEN tile_detection.confidences[i]
                      ELSE 0,
                  tile_id |-> tile_detection.tile]]
             \o convert_from(Tail(all_tile_detections),
                             detection_id_counter + n)

convert_tile_detections_to_shapely_polygons(all_tile_detections) ==
    convert_from(all_tile_detections, 0)

RectWidth(p) == p[3] - p[1]
RectHeight(p) == p[4] - p[2]
RectArea(p) == RectWidth(p) * RectHeight(p)
Centroid2(p) == <<p[1] + p[3], p[2] + p[4]>>
OverlapX(p, q) == Min(p[3], q[3]) - Max(p[1], q[1])
OverlapY(p, q) == Min(p[4], q[4]) - Max(p[2], q[2])
IntersectionArea(p, q) == Max(OverlapX(p, q), 0) * Max(OverlapY(p, q), 0)

\* shapely touches: a common point, no common interior point
Touches(p, q) ==
    /\ OverlapX(p, q) >= 0
    /\ OverlapY(p, q) >= 0
    /\ OverlapX(p, q) = 0 \/ OverlapY(p, q) = 0

\* the length of the common boundary of two touching rectangles
TouchLength(p, q) == Max(OverlapX(p, q), OverlapY(p, q))

\* get_long_axis of a rectangle: the direction of its longer side
get_long_axis(p) == IF RectHeight(p) >= RectWidth(p) THEN "vertical"
                                                      ELSE "horizontal"

\* calculate_axis_alignment: |dot product| of two unit axes
calculate_axis_alignment(axis1, axis2) == IF axis1 = axis2 THEN 1 ELSE 0

\* 1 - |c1 - c2| / max(extent) in thousandths; c doubled
AlignmentScore(c1, c2, extent1, extent2) ==
    1000 - (1000 * Abs(c1 - c2)) \div (2 * Max(extent1, extent2))

\* calculate_boundary_proximity, in thousandths
calculate_boundary_proximity(poly, tile_id, other_poly, other_tile_id) ==
    LET dx == other_tile_id[2] - tile_id[2]
        dy == other_tile_id[3] - tile_id[3]
        c1 == Centroid2(poly)
        c2 == Centroid2(other_poly)
        vertical_alignment ==
            AlignmentScore(c1[2], c2[2], RectHeight(poly),
                           RectHeight(other_poly))
        horizontal_alignment ==
            AlignmentScore(c1[1], c2[1], RectWidth(poly),
                           RectWidth(other_poly))
    IN  IF tile_id[1] # other_tile_id[1] THEN 0
        ELSE IF ~(Abs(dx) <= 1 /\ Abs(dy) <= 1) THEN 0
        ELSE IF dx # 0 /\ dy = 0 THEN vertical_alignment
        ELSE IF dx = 0 /\ dy # 0 THEN horizontal_alignment
        ELSE Min(vertical_alignment, horizontal_alignment)

\* the greatest r in lo..hi with r * r <= n (lo * lo <= n)
RECURSIVE SqrtBetween(_, _, _)
SqrtBetween(n, lo, hi) ==
    IF lo = hi
    THEN lo
    ELSE LET mid == (lo + hi + 1) \div 2
         IN  IF mid * mid <= n THEN SqrtBetween(n, mid, hi)
                               ELSE SqrtBetween(n, lo, mid - 1)

\* floor of the square root, for n < 2^24
ISqrt(n) == SqrtBetween(n, 0, 4095)

\* shapely distance of two rectangles, squared: 0 when they meet
EdgeDistance2(p, q) ==
    LET gap_x == Max(0 - OverlapX(p, q), 0)
        gap_y == Max(0 - OverlapY(p, q), 0)
    IN  gap_x * gap_x + gap_y * gap_y

\* the distance of the two centroids
CenterDistance(p, q) ==
    LET c1 == Centroid2(p)
        c2 == Centroid2(q)
    IN  ISqrt((c1[1] - c2[1]) * (c1[1] - c2[1])
                + (c1[2] - c2[2]) * (c1[2] - c2[2])) \div 2

\* _check_proximity_connection's score for two polygons that do not
\* touch, edge_dist * (1 + center_distance) / (alignment_factor + 1e-10),
\* kept up to an order-preserving encoding: center_distance is in
\* degrees, far below 1, so the scores are ordered by the edge distance
\* and then by the center distance, and a pair with alignment_factor 0
\* (a quotient 1e10 times larger) comes after every aligned pair
ProximityScore(edge_dist_1000, center_distance, alignment_factor) ==
    (IF alignment_factor = 0 THEN 1073741824 ELSE 0)
        + edge_dist_1000 * 4096 + center_distance

\* A variant of _analyze_polygon_pair without the test of the tiles: two
\* detections of one tile are analysed like any other pair;
\* C28_OneEdgePerPair does not hold with it.
_analyze_polygon_pair_any_tile(i, j, individual_detections, iou_thresh_1000, touch_enabled, min_edge_distance_deg) ==
    LET poly_i == individual_detections[i + 1].polygon
        poly_j == individual_detections[j + 1].polygon
        intersection == IntersectionArea(poly_i, poly_j)
        union_val == RectArea(poly_i) + RectArea(poly_j) - intersection
        iou == IF union_val > 0 THEN (1000 * intersection) \div union_val
                                ELSE 0
    IN  IF intersection > 0 /\ iou > iou_thresh_1000
        THEN <<0 - iou, 1>>
        ELSE IF touch_enabled /\ Touches(poly_i, poly_j)
        THEN <<0 - 500 * TouchLength(poly_i, poly_j), 3>>
        ELSE None

\* _analyze_polygon_pair: None, or <<score, phase>> with the score in
\* thousandths.  min_edge_distance_deg is in pixels.
_analyze_polygon_pair(i, j, individual_detections, iou_thresh_1000, touch_enabled, min_edge_distance_deg) ==
    LET poly_i == individual_detections[i + 1].polygon
        poly_j == individual_detections[j + 1].polygon
        tile_i_id == individual_detections[i + 1].tile_id
        tile_j_id == individual_detections[j + 1].tile_id
        boundary_score ==
            calculate_boundary_proximity(poly_i, tile_i_id, poly_j, tile_j_id)
        alignment_factor ==
            calculate_axis_alignment(get_long_axis(poly_i),
                                     get_long_axis(poly_j))
        intersection == IntersectionArea(poly_i, poly_j)
        union_val == RectArea(poly_i) + RectArea(poly_j) - intersection
        iou == IF union_val > 0 THEN (1000 * intersection) \div union_val
                                ELSE 0
        edge_dist2 == EdgeDistance2(poly_i, poly_j)
        near == /\ min_edge_distance_deg > 0
                /\ 0 < edge_dist2
                /\ edge_dist2 < min_edge_distance_deg * min_edge_distance_deg
        edge_dist_1000 == ISqrt(edge_dist2 * 1000000)
    IN  IF tile_i_id = tile_j_id THEN None
        ELSE IF intersection > 0 /\ iou > iou_thresh_1000
        THEN <<0 - iou, 1>>
        ELSE IF boundary_score > 700 /\ touch_enabled
                /\ Touches(poly_i, poly_j)
        THEN <<0 - boundary_score * alignment_factor, 2>>
        ELSE IF boundary_score > 700 /\ near
        THEN <<edge_dist_1000 \div min_edge_distance_deg - boundary_score, 2>>
        ELSE IF touch_enabled /\ Touches(poly_i, poly_j)
        THEN <<0 - 500 * TouchLength(poly_i, poly_j) * alignment_factor, 3>>
        ELSE IF near
        THEN <<ProximityScore(edge_dist_1000,
                              CenterDistance(poly_i, poly_j),
                              alignment_factor), 3>>
        ELSE None

\* A variant of _find_all_connections that analyses only the pairs of
\* neighbours in the list; C27_PartitionOrderIndependent does not hold with
\* it.
_find_all_connections_neighbours(individual_detections, iou_thresh_1000, touch_enabled, min_edge_distance_deg) ==
    LET pairs == SelectSeq(DetectionPairs(0, 1, Len(individual_detections)),
                           LAMBDA pair : pair[2] = pair[1] + 1)
        choice == [k \in 1..Len(pairs) |->
                      _analyze_polygon_pair(pairs[k][1], pairs[k][2],
                                            individual_detections,
                                            iou_thresh_1000, touch_enabled,
                                            min_edge_distance_deg)]
    IN  RecordedConnections(pairs, choice, 1)

\* _find_all_connections
_find_all_connections(individual_detections, iou_thresh_1000, touch_enabled, min_edge_distance_deg) ==
    LET pairs == DetectionPairs(0, 1, Len(individual_detections))
        choice == [k \in 1..Len(pairs) |->
                      _analyze_polygon_pair(pairs[k][1], pairs[k][2],
                                            individual_detections,
                                            iou_thresh_1000, touch_enabled,
                                            min_edge_distance_deg)]
    IN  RecordedConnections(pairs, choice, 1)

\* the envelope of the union of the polygons of a component
RECURSIVE Envelope(_, _)
Envelope(individual_detections, indices) ==
    LET p == individual_detections[Head(indices) + 1].polygon
    IN  IF Len(indices) = 1
        THEN p
        ELSE LET q == Envelope(individual_detections, Tail(indices))
             IN  <<Min(p[1], q[1]), Min(p[2], q[2]),
                   Max(p[3], q[3]), Max(p[4], q[4])>>

\* the decimal digits of a number, as str() writes them
RECURSIVE DecimalDigits(_)
DecimalDigits(n) ==
    IF n < 10 THEN <<n>> ELSE Append(DecimalDigits(n \div 10), n % 10)

\* a < b for two sequences of digits compared as strings
RECURSIVE StringLess(_, _)
StringLess(a, b) ==
    IF b = <<>> THEN FALSE
    ELSE IF a = <<>> THEN TRUE
    ELSE IF Head(a) # Head(b) THEN Head(a) < Head(b)
    ELSE StringLess(Tail(a), Tail(b))

\* id1 < id2 for two ids with the same prefix, e.g. "det_10" < "det_2"
IdLess(id1, id2) == StringLess(DecimalDigits(id1[2]), DecimalDigits(id2[2]))

\* sorted(group_ids): the ids in increasing string order
RECURSIVE sorted(_)
sorted(ids) ==
    IF ids = {}
    THEN <<>>
    ELSE LET first == CHOOSE x \in ids : \A y \in ids \ {x} : IdLess(x, y)
         IN  <<first>> \o sorted(ids \ {first})

\* max(group_confidences)
MaxOf(S) == CHOOSE x \in S : \A y \in S : y <= x

\* A variant of _create_merged_buildings that gives a building the
\* confidence of the first detection of its component;
\* C26_MergedPartition does not hold with it.
_create_merged_buildings_first_confidence(components, individual_detections) ==
    [k \in 1..Len(components) |->
        LET indices == components[k].indices
        IN  [id |-> <<"merged_", k - 1>>,
             coordinates |-> Envelope(individual_detections, indices),
             confidence |-> individual_detections[indices[1] + 1].confidence,
             original_ids |->
                 sorted({individual_detections[indices[x] + 1].id :
                            x \in DOMAIN indices}),
             original_count |-> Len(indices)]]

\* _create_merged_buildings: one building per component, in the order of
\* the components, with the id "merged_<k>"
_create_merged_buildings(components, individual_detections) ==
    [k \in 1..Len(components) |->
        LET indices == components[k].indices
            group_confidences ==
                {individual_detections[indices[x] + 1].confidence :
                    x \in DOMAIN indices}
            group_ids ==
                {individual_detections[indices[x] + 1].id :
                    x \in DOMAIN indices}
        IN  [id |-> <<"merged_", k - 1>>,
             coordinates |-> Envelope(individual_detections, indices),
             confidence |-> MaxOf(group_confidences),
             original_ids |-> sorted(group_ids),
             original_count |-> Len(indices)]]

\* merge_overlapping_detections
merge_overlapping_detections(individual_detections, iou_thresh_1000, touch_enabled, min_edge_distance_deg, allowed_merge_phases) ==
    IF individual_detections = <<>>
    THEN <<>>
    ELSE _create_merged_buildings(
             _process_union_find_merging(
                 _find_all_connections(individual_detections,
                                       iou_thresh_1000, touch_enabled,
                                       min_edge_distance_deg),
                 Len(individual_detections), allowed_merge_phases),
             individual_detections)

\* _process_merging_phase: final_detections_for_json
_process_merging_phase(all_detections_raw_per_tile, merge_iou_threshold_1000, touch_enabled, min_edge_distance_deg) ==
    LET merged_buildings_list ==
            merge_overlapping_detections(
                convert_tile_detections_to_shapely_polygons(
                    all_detections_raw_per_tile),
                merge_iou_threshold_1000, touch_enabled,
                min_edge_distance_deg, {1, 2})
    IN  [k \in 1..Len(merged_buildings_list) |->
            LET mb == merged_buildings_list[k]
            IN  [id |-> mb.id,
                 coordinates |-> mb.coordinates,
                 confidence |-> mb.confidence,
                 original_count |-> mb.original_count]]

\* _process_no_merging_phase: final_detections_for_json
_process_no_merging_phase(all_detections_raw_per_tile) ==
    LET individual_shapely_detections ==
            convert_tile_detections_to_shapely_polygons(
                all_detections_raw_per_tile)
    IN  [k \in 1..Len(individual_shapely_detections) |->
            [id |-> individual_shapely_detections[k].id,
             coordinates |-> individual_shapely_detections[k].polygon,
             confidence |-> individual_shapely_detections[k].confidence]]

\* round(x, 8) of a doubled centroid coordinate: the nearest multiple of
\* 1e-8 degrees, a tie going to the even one
round8(c) ==
    LET q == c \div 4
        r == c % 4
    IN  IF r < 2 THEN q
        ELSE IF r > 2 THEN q + 1
        ELSE IF q % 2 = 0 THEN q ELSE q + 1

\* target_polygon.contains(centroid_point): the interior of the polygon
PolygonContains(target_polygon, c) ==
    /\ 2 * target_polygon[1] < c[1] /\ c[1] < 2 * target_polygon[3]
    /\ 2 * target_polygon[2] < c[2] /\ c[2] < 2 * target_polygon[4]

\* the id with its prefix 'merged_', 'det_' or 'b_' removed: a string of
\* digits, kept as <<"", number>>
DisplayId(building_id) ==
    IF building_id[1] \in {"merged_", "det_", "b_"}
    THEN <<"", building_id[2]>>
    ELSE building_id

\* the record of buildings_simple.json for a building
SimpleBuilding(bldg_data) ==
    LET centroid == Centroid2(bldg_data.coordinates)
    IN  [id |-> DisplayId(bldg_data.id),
         longitude |-> round8(centroid[1]),
         latitude |-> round8(centroid[2])]

\* A variant of save_buildings_simple_format that emits every building
\* without the containment test; C20_ContainmentFilter does not hold with it.
save_buildings_simple_format_unfiltered(buildings_to_check, target_polygon) ==
    [k \in 1..Len(buildings_to_check) |->
        SimpleBuilding(buildings_to_check[k])]

\* save_buildings_simple_format: the list written to buildings_simple.json,
\* the buildings whose centroid the polygon contains, in the order given
save_buildings_simple_format(buildings_to_check, target_polygon) ==
    LET buildings_inside ==
            SelectSeq(buildings_to_check, LAMBDA bldg_data :
                PolygonContains(target_polygon,
                                Centroid2(bldg_data.coordinates)))
    IN  [k \in 1..Len(buildings_inside) |->
            SimpleBuilding(buildings_inside[k])]

----------------------------------------------------------------------------
(* detect_buildings_in_polygon on one output directory: a first run, which *)
(* may be stopped, and a second run with resume_from_saved.  The detector  *)
(* and the tile source are fixed: source[tile] is the list of boxes every  *)
(* detection of that tile returns.                                         *)

\* pixel boxes the detector returns: north-west, at the east edge, at the
\* west edge level with it, and at the west edge further south
BoxNW == <<2, 0, 96, 64>>
BoxE == <<160, 96, 256, 160>>
BoxW == <<0, 96, 96, 160>>
BoxSW == <<0, 144, 96, 208>>
\* and one pixel off the west edge, level with BoxE and further south
BoxW1 == <<1, 96, 96, 160>>
BoxSW1 == <<1, 144, 96, 208>>

\* the confidence the detector gives each of them
BoxConfidence(bbox_coords) ==
    CASE bbox_coords = BoxNW -> 90
      [] bbox_coords = BoxE -> 60
      [] bbox_coords = BoxW -> 80
      [] bbox_coords = BoxSW -> 70
      [] bbox_coords = BoxW1 -> 75
      [] bbox_coords = BoxSW1 -> 65

TileBoxInputs == {<<>>, <<BoxNW>>, <<BoxE>>, <<BoxW>>, <<BoxSW>>,
                  <<BoxNW, BoxE>>, <<BoxW, BoxSW>>}

\* request polygons: the first n tiles but for a margin, or the northern
\* part of that
RequestPolygons ==
    {<<8, south, n * img_width - 8, img_height - 8>> :
        n \in 1..MaxGridTiles, south \in {8, 120}}

\* the defaults of merge_iou_threshold (0.1, in thousandths) and
\* merge_touch_enabled
merge_iou_threshold == 100
merge_touch_enabled == TRUE
\* the default of merge_min_edge_distance_deg, 0.00001 degrees, in pixels: a
\* pixel of a tile of zoom 18 is 0.0000054 degrees wide, so that of the
\* distances between pixel corners those of squared length 1, 2 and 3 are
\* below the default and no other
merge_min_edge_distance_deg == 2

\* the sequences that list every element of a finite set once
RECURSIVE Orderings(_)
Orderings(S) ==
    IF S = {}
    THEN {<<>>}
    ELSE UNION {{<<x>> \o o : o \in Orderings(S \ {x})} : x \in S}

\* the detailed tile file save_tile_results writes, which is also the result
\* load_saved_tile_results reads back
TileDetections(source, tile) ==
    [tile |-> tile, bounds |-> get_tile_bounds(tile), boxes |-> source[tile],
     confidences |-> [i \in DOMAIN source[tile] |->
                         BoxConfidence(source[tile][i])]]

\* process_tile_batch: the results of the tiles of a batch, in their order
process_tile_batch(source, tile_batch) ==
    [k \in 1..Len(tile_batch) |-> TileDetections(source, tile_batch[k])]

\* _handle_resume_logic, given the saved results in the order glob lists them
_handle_resume_logic(resume_from_saved, saved_tile_results, all_tiles) ==
    IF resume_from_saved /\ saved_tile_results # <<>>
    THEN [all_detections_raw_per_tile |-> saved_tile_results,
          tiles_to_process |->
              SelectSeq(all_tiles, LAMBDA t :
                  t \notin {saved_tile_results[k].tile :
                               k \in 1..Len(saved_tile_results)})]
    ELSE [all_detections_raw_per_tile |-> <<>>, tiles_to_process |-> all_tiles]

\* from the raw per-tile results to the list in buildings_simple.json
FinalBuildings(all_detections_raw_per_tile, enable_merging, target_polygon) ==
    save_buildings_simple_format(
        IF enable_merging
        THEN _process_merging_phase(all_detections_raw_per_tile,
                                    merge_iou_threshold, merge_touch_enabled,
                                    merge_min_edge_distance_deg)
        ELSE _process_no_merging_phase(all_detections_raw_per_tile),
        target_polygon)

\* a run starts: _load_and_prepare_data, _handle_resume_logic, the batches
\* of _execute_tile_processing.  The second run resumes from the tile files
\* on disk, which glob lists in glob_order, an order of the file system's
\* choosing.
SessionBegin(glob_order) ==
    /\ session.pc \in {"start", "stopped"}
    /\ LET all_tiles == get_tiles_for_polygon(session.target_polygon)
           saved_files == SelectSeq(glob_order, LAMBDA t :
                              \E d \in session.disk : d.tile = t)
           saved_tile_results ==
               [k \in 1..Len(saved_files) |->
                   CHOOSE d \in session.disk : d.tile = saved_files[k]]
           resumed == _handle_resume_logic(session.pc = "stopped",
                                           saved_tile_results, all_tiles)
           tile_batches == create_batches(resumed.tiles_to_process,
                                          session.batch_size)
       IN  session' = [session EXCEPT
               !.pc = "tiles",
               !.run = @ + 1,
               !.saved_at_start = {d.tile : d \in session.disk},
               !.all_detections_raw_per_tile =
                    resumed.all_detections_raw_per_tile,
               !.tile_batches = tile_batches,
               !.pending = DOMAIN tile_batches,
               !.processed = {}]
    /\ UNCHANGED <<active_jobs, model, now, work_queue, worker, tiles, pool,
                   req, resp, cancelled, temp_dirs, cleanup_warnings, merger>>

\* as_completed yields batch b: its tiles were fetched and detected, each
\* result is saved and the results are appended to the list
SessionBatchCompleted(b) ==
    /\ session.pc = "tiles"
    /\ b \in session.pending
    /\ LET batch_detections ==
               process_tile_batch(session.source, session.tile_batches[b])
       IN  session' = [session EXCEPT
               !.pending = @ \ {b},
               !.processed = @ \cup Range(session.tile_batches[b]),
               !.disk = @ \cup Range(batch_detections),
               !.all_detections_raw_per_tile = @ \o batch_detections]
    /\ UNCHANGED <<active_jobs, model, now, work_queue, worker, tiles, pool,
                   req, resp, cancelled, temp_dirs, cleanup_warnings, merger>>

\* the first run is stopped: while the results of batch b were being saved,
\* after k of them (b = 0: between two batches or before the merge)
SessionStop(b, k) ==
    /\ session.pc = "tiles"
    /\ session.run = 1
    /\ IF b = 0
       THEN k = 0
       ELSE b \in session.pending /\ k \in 0..Len(session.tile_batches[b])
    /\ LET saved == IF b = 0
                    THEN {}
                    ELSE Range(SubSeq(process_tile_batch(
                                          session.source,
                                          session.tile_batches[b]), 1, k))
       IN  session' = [session EXCEPT
               !.pc = "stopped",
               !.disk = @ \cup saved,
               !.all_detections_raw_per_tile = <<>>,
               !.tile_batches = <<>>,
               !.pending = {},
               !.processed = {}]
    /\ UNCHANGED <<active_jobs, model, now, work_queue, worker, tiles, pool,
                   req, resp, cancelled, temp_dirs, cleanup_warnings, merger>>

\* every batch is in: merging or not, the payload, buildings_simple.json,
\* and _finalize_session removes the tile files
SessionFinish ==
    /\ session.pc = "tiles"
    /\ session.pending = {}
    /\ session' = [session EXCEPT
           !.pc = "done",
           !.detections =
                IF session.enable_merging
                THEN _process_merging_phase(
                         session.all_detections_raw_per_tile,
                         merge_iou_threshold, merge_touch_enabled,
                         merge_min_edge_distance_deg)
                ELSE _process_no_merging_phase(
                         session.all_detections_raw_per_tile),
           !.buildings = FinalBuildings(session.all_detections_raw_per_tile,
                                        session.enable_merging,
                                        session.target_polygon),
           !.disk = {}]
    /\ UNCHANGED <<active_jobs, model, now, work_queue, worker, tiles, pool,
                   req, resp, cancelled, temp_dirs, cleanup_warnings, merger>>

----------------------------------------------------------------------------
(* The service: requests, the job table and the runners of the jobs *)

Next ==
    \/ \E job_id \in SpecJobIds, polygon \in PolygonInputs :
          SubmitReceive(job_id, polygon)
    \/ \E uuid \in Uuids \cup {NoJob}, io_ok \in BOOLEAN :
          SubmitFinish(uuid, io_ok)
    \/ \E job_id \in {JobX} \cup Uuids : CancelReceive(job_id)
    \/ CancelApply
    \/ \E t \in Threads : RunnerStart(t)
    \/ \E t \in Threads : RunnerGetJob(t)
    \/ \E t \in Threads : RunnerUpdate(t)
    \/ \E t \in Threads : RunnerMkdtemp(t)
    \/ \E t \in Threads, io_ok \in BOOLEAN : RunnerValidate(t, io_ok)
    \/ \E t \in Threads, ntiles \in 0..MaxTiles : RunnerPlan(t, ntiles)
    \/ \E t \in Threads :
          \E dets \in TileResultLists(Range(tiles[t].todo)) :
              RunnerTiles(t, dets)
    \/ \E t \in Threads : RunnerRaise(t)
    \/ \E t \in Threads, n \in 0..(MaxTiles * MaxBoxes) : RunnerMerge(t, n)
    \/ \E t \in Threads, io_ok \in BOOLEAN, n \in 0..(MaxTiles * MaxBoxes) :
          RunnerSave(t, io_ok, n)
    \/ \E t \in Threads : RunnerComplete(t)
    \/ \E t \in Threads : RunnerInnerExcept(t)
    \/ \E t \in Threads : RunnerOuterExcept(t)
    \/ \E t \in Threads, rm_ok \in BOOLEAN : RunnerFinally(t, rm_ok)

Spec == Init /\ [][Next]_vars

----------------------------------------------------------------------------
(* The submit and cancel endpoints alone, before the executor has started  *)
(* any accepted job, for clients that send every custom id of CustomIds.   *)

NextSubmit ==
    \/ \E job_id \in AllJobIds, polygon \in PolygonInputs :
          SubmitReceive(job_id, polygon)
    \/ \E uuid \in Uuids \cup {NoJob}, io_ok \in BOOLEAN :
          SubmitFinish(uuid, io_ok)
    \/ \E job_id \in ValidIds \cup Uuids : CancelReceive(job_id)
    \/ CancelApply

SpecSubmit == Init /\ [][NextSubmit]_vars

----------------------------------------------------------------------------
(* The JobManager as an object: its methods called in any order with any   *)
(* arguments, while the clock advances.                                    *)

ProgressInputs == {-1, 0, 50, 100, 101}
StageInputs == {"stage"}

(* create_job, called as its one caller does: after validate_and_get_job_id *)
(* has found the id available.                                             *)
MgrCreate(job_id, polygon) ==
    /\ is_job_id_available(active_jobs, job_id)
    /\ active_jobs' = create_job(active_jobs, job_id, polygon)
    /\ UNCHANGED <<model, now, work_queue, worker, tiles, pool, req, resp,
                   cancelled, temp_dirs, cleanup_warnings, merger, session>>

MgrUpdate(job_id, progress, stage, buildings_found) ==
    /\ active_jobs' = update_job_progress(active_jobs, job_id, progress, stage,
                                          buildings_found)
    /\ UNCHANGED <<model, now, work_queue, worker, tiles, pool, req, resp,
                   cancelled, temp_dirs, cleanup_warnings, merger, session>>

MgrComplete(job_id, total_buildings) ==
    /\ active_jobs' = complete_job(active_jobs, job_id,
                          [total_buildings |-> total_buildings], now)
    /\ UNCHANGED <<model, now, work_queue, worker, tiles, pool, req, resp,
                   cancelled, temp_dirs, cleanup_warnings, merger, session>>

MgrFail(job_id, error_message) ==
    /\ active_jobs' = fail_job(active_jobs, job_id, error_message, now)
    /\ UNCHANGED <<model, now, work_queue, worker, tiles, pool, req, resp,
                   cancelled, temp_dirs, cleanup_warnings, merger, session>>

MgrCancel(job_id) ==
    /\ active_jobs' = cancel_job(active_jobs, job_id, now)
    /\ UNCHANGED <<model, now, work_queue, worker, tiles, pool, req, resp,
                   cancelled, temp_dirs, cleanup_warnings, merger, session>>

\* the max_age_hours values cleanup_old_jobs is called with
MaxAgeInputs == {0, 1}

MgrCleanup(max_age_hours) ==
    /\ active_jobs' = cleanup_old_jobs(active_jobs, max_age_hours, now)
    /\ active_jobs' # active_jobs
    /\ UNCHANGED <<model, now, work_queue, worker, tiles, pool, req, resp,
                   cancelled, temp_dirs, cleanup_warnings, merger, session>>

NextMgr ==
    \/ Tick
    \/ \E max_age_hours \in MaxAgeInputs : MgrCleanup(max_age_hours)
    \/ \E job_id \in {JobX} : MgrCreate(job_id, "polygon")
    \/ \E job_id \in {JobX} \cup Uuids, progress \in ProgressInputs,
          stage \in StageInputs, buildings_found \in 0..MaxBoxes :
          MgrUpdate(job_id, progress, stage, buildings_found)
    \/ \E job_id \in {JobX} \cup Uuids, n \in 0..MaxBoxes :
          MgrComplete(job_id, n)
    \/ \E job_id \in {JobX} \cup Uuids : MgrFail(job_id, "error")
    \/ \E job_id \in {JobX} \cup Uuids : MgrCancel(job_id)

SpecMgr == Init /\ [][NextMgr]_vars

----------------------------------------------------------------------------
(* The tile processor of two pipelines running at the same time: the       *)
(* runner of an accepted job, on executor thread 1, and the synchronous    *)
(* endpoint, on the event loop thread, both about to call                  *)
(* _execute_tile_processing.                                               *)

InitTiles ==
    /\ active_jobs = update_job_progress(create_job(<<>>, JobX, "polygon"),
                                         JobX, 35, "Processing tiles", 0)
    /\ model = "loaded"
    /\ now = 0
    /\ work_queue = <<>>
    /\ worker = [t \in Threads |->
                   IF t = 1 THEN [IdleWorker EXCEPT !.pc = "tiles",
                                                    !.job_id = JobX,
                                                    !.temp_dir = TRUE]
                   ELSE IdleWorker]
    /\ \E n0 \in 0..MaxPoolTiles, n1 \in 0..MaxPoolTiles :
          tiles = [p \in Pipelines |->
                     IF p = 0 THEN [NoTiles EXCEPT !.todo = [i \in 1..n0 |-> i]]
                     ELSE IF p = 1
                     THEN [NoTiles EXCEPT !.todo = [i \in 1..n1 |-> i]]
                     ELSE NoTiles]
    /\ pool = [p \in Pipelines |-> [k \in TileThreads |-> IdleTileThread]]
    /\ req = [op |-> "sync", job_id |-> None, polygon |-> "polygon",
              check |-> 0]
    /\ resp = NoResponse
    /\ cancelled = {}
    /\ temp_dirs = {JobX}
    /\ cleanup_warnings = {}
    /\ merger = NoMerger
    /\ session = NoSession

NextTiles ==
    \/ \E p \in 0..1, batch_size \in BatchSizes : TilesSubmit(p, batch_size)
    \/ \E p \in 0..1, k \in TileThreads : PoolTake(p, k)
    \/ \E p \in 0..1, k \in TileThreads, ok \in BOOLEAN : PoolFetch(p, k, ok)
    \/ \E p \in 0..1, k \in TileThreads : PoolAcquire(p, k)
    \/ \E p \in 0..1, k \in TileThreads, ok \in BOOLEAN, boxes \in 0..MaxBoxes :
          PoolDetect(p, k, ok, boxes)
    \/ \E p \in 0..1, b \in 1..MaxPoolTiles : TilesCollect(p, b)
    \/ \E p \in 0..1, b \in 1..MaxPoolTiles : TilesCollectRaises(p, b)
    \/ \E p \in 0..1 : TilesExit(p)

SpecTiles == InitTiles /\ [][NextTiles]_vars

----------------------------------------------------------------------------
(* One call of _execute_tile_processing after _handle_resume_logic, on     *)
(* every plan, every content of the tiles directory and both settings of   *)
(* resume_from_saved.  Tile 0 is a tile outside the plan (a file left by   *)
(* another session).                                                       *)

\* the detailed file of a tile, as load_saved_tile_results reads it
SavedTile(x) == [tile |-> x, boxes |-> MaxBoxes]

InitBatch ==
    /\ active_jobs = update_job_progress(create_job(<<>>, JobX, "polygon"),
                                         JobX, 35, "Processing tiles", 0)
    /\ model = "loaded"
    /\ now = 0
    /\ work_queue = <<>>
    /\ worker = [t \in Threads |->
                   IF t = 1 THEN [IdleWorker EXCEPT !.pc = "tiles",
                                                    !.job_id = JobX,
                                                    !.temp_dir = TRUE]
                   ELSE IdleWorker]
    /\ pool = [p \in Pipelines |-> [k \in TileThreads |-> IdleTileThread]]
    /\ req = Idle
    /\ resp = NoResponse
    /\ cancelled = {}
    /\ temp_dirs = {JobX}
    /\ cleanup_warnings = {}
    /\ merger = NoMerger
    /\ \E n \in 0..MaxPoolTiles, resume_from_saved \in BOOLEAN :
       \E files \in SUBSET (0..MaxPoolTiles) :
       \E glob_order \in Orderings(files) :
          LET all_tiles == [i \in 1..n |-> i]
              saved_tile_results ==
                  [k \in 1..Len(glob_order) |-> SavedTile(glob_order[k])]
              resumed == _handle_resume_logic(resume_from_saved,
                                              saved_tile_results, all_tiles)
          IN  /\ session = [pc |-> "pool",
                            all_tiles |-> all_tiles,
                            resume_from_saved |-> resume_from_saved,
                            saved_tile_results |-> saved_tile_results]
              /\ tiles = [p \in Pipelines |->
                    IF p = 1
                    THEN [NoTiles EXCEPT
                            !.todo = resumed.tiles_to_process,
                            !.all_detections =
                                resumed.all_detections_raw_per_tile]
                    ELSE NoTiles]

NextBatch ==
    \/ \E batch_size \in BatchSizes : TilesSubmit(1, batch_size)
    \/ \E k \in TileThreads : PoolTake(1, k)
    \/ \E k \in TileThreads, ok \in BOOLEAN : PoolFetch(1, k, ok)
    \/ \E k \in TileThreads : PoolAcquire(1, k)
    \/ \E k \in TileThreads, ok \in BOOLEAN, boxes \in 0..MaxBoxes :
          PoolDetect(1, k, ok, boxes)
    \/ \E b \in 1..MaxPoolTiles : TilesCollect(1, b)
    \/ \E b \in 1..MaxPoolTiles : TilesCollectRaises(1, b)
    \/ TilesExit(1)

SpecBatch == InitBatch /\ [][NextBatch]_vars

----------------------------------------------------------------------------
(* One accepted job from the moment it waits in the executor's queue to    *)
(* the return of its runner, with cancel requests for it arriving at any   *)
(* time.                                                                   *)

InitRun ==
    /\ \E polygon \in PolygonInputs :
          active_jobs = create_job(<<>>, JobX, polygon)
    /\ model = "loaded"
    /\ now = 0
    /\ work_queue = <<JobX>>
    /\ worker = [t \in Threads |-> IdleWorker]
    /\ tiles = [p \in Pipelines |-> NoTiles]
    /\ pool = [p \in Pipelines |-> [k \in TileThreads |-> IdleTileThread]]
    /\ req = Idle
    /\ resp = NoResponse
    /\ cancelled = {}
    /\ temp_dirs = {}
    /\ cleanup_warnings = {}
    /\ merger = NoMerger
    /\ session = NoSession

NextRun ==
    \/ \E job_id \in {JobX} : CancelReceive(job_id)
    \/ CancelApply
    \/ \E job_id \in {JobX} \cup Uuids : ResultReceive(job_id)
    \/ ResultCheck
    \/ ResultFinish
    \/ \E job_id \in {JobX} \cup Uuids : StatusRequest(job_id)
    \/ \E t \in Threads : RunnerStart(t)
    \/ \E t \in Threads : RunnerGetJob(t)
    \/ \E t \in Threads : RunnerUpdate(t)
    \/ \E t \in Threads : RunnerMkdtemp(t)
    \/ \E t \in Threads, io_ok \in BOOLEAN : RunnerValidate(t, io_ok)
    \/ \E t \in Threads, ntiles \in 0..MaxTiles : RunnerPlan(t, ntiles)
    \/ \E t \in Threads :
          \E dets \in TileResultLists(Range(tiles[t].todo)) :
              RunnerTiles(t, dets)
    \/ \E t \in Threads : RunnerRaise(t)
    \/ \E t \in Threads, n \in 0..(MaxTiles * MaxBoxes) : RunnerMerge(t, n)
    \/ \E t \in Threads, io_ok \in BOOLEAN, n \in 0..(MaxTiles * MaxBoxes) :
          RunnerSave(t, io_ok, n)
    \/ \E t \in Threads : RunnerComplete(t)
    \/ \E t \in Threads : RunnerInnerExcept(t)
    \/ \E t \in Threads : RunnerOuterExcept(t)
    \/ \E t \in Threads, rm_ok \in BOOLEAN : RunnerFinally(t, rm_ok)

SpecRun == InitRun /\ [][NextRun]_vars

----------------------------------------------------------------------------
(* One accepted job and the result requests for it, with complete_job's    *)
(* assignments as the handler of the result request sees them: the handler *)
(* holds the JobInfo object get_job returned and reads its fields without  *)
(* job_lock, so that it runs between the assignments of complete_job,      *)
(* which writes the status first and request_params['result_data'] last.   *)

\* job.status, job.progress, job.stage, job.end_time, job.execution_time
complete_job_status(jobs, job_id, time) ==
    IF job_id \in DOMAIN jobs
    THEN [jobs EXCEPT ![job_id] =
            [@ EXCEPT !.status = "completed",
                      !.progress = 100,
                      !.stage = "Completed successfully",
                      !.end_time = Some(time)]]
    ELSE jobs

\* job.request_params['result_data'] = result_data
complete_job_store(jobs, job_id, result_data) ==
    IF job_id \in DOMAIN jobs
    THEN [jobs EXCEPT ![job_id] = [@ EXCEPT !.result_data = Some(result_data)]]
    ELSE jobs

RunnerCompleteStatus(t) ==
    /\ worker[t].pc = "complete"
    /\ active_jobs' = complete_job_status(active_jobs, worker[t].job_id, now)
    /\ worker' = [worker EXCEPT ![t].pc = "complete_store"]
    /\ UNCHANGED <<model, now, work_queue, tiles, pool, req, resp, cancelled,
                   temp_dirs, cleanup_warnings, merger, session>>

RunnerCompleteStore(t) ==
    /\ worker[t].pc = "complete_store"
    /\ active_jobs' = complete_job_store(active_jobs, worker[t].job_id,
                          [total_buildings |-> worker[t].found])
    /\ worker' = [worker EXCEPT ![t].pc = "finally"]
    /\ UNCHANGED <<model, now, work_queue, tiles, pool, req, resp, cancelled,
                   temp_dirs, cleanup_warnings, merger, session>>

\* what get_job_result puts into the response for the result data it
\* found: result_data = job.request_params.get('result_data', {}),
\* total_buildings from it, 0 without buildings
ReturnedResult(result_data) ==
    IF result_data = None THEN [total_buildings |-> 0] ELSE result_data[1]

NextResult ==
    \/ \E job_id \in {JobX} \cup Uuids : ResultReceive(job_id)
    \/ ResultCheck
    \/ ResultFinish
    \/ \E t \in Threads : RunnerStart(t)
    \/ \E t \in Threads : RunnerGetJob(t)
    \/ \E t \in Threads : RunnerUpdate(t)
    \/ \E t \in Threads : RunnerMkdtemp(t)
    \/ \E t \in Threads, io_ok \in BOOLEAN : RunnerValidate(t, io_ok)
    \/ \E t \in Threads, ntiles \in 0..MaxTiles : RunnerPlan(t, ntiles)
    \/ \E t \in Threads :
          \E dets \in TileResultLists(Range(tiles[t].todo)) :
              RunnerTiles(t, dets)
    \/ \E t \in Threads : RunnerRaise(t)
    \/ \E t \in Threads, n \in 0..(MaxTiles * MaxBoxes) : RunnerMerge(t, n)
    \/ \E t \in Threads, io_ok \in BOOLEAN, n \in 0..(MaxTiles * MaxBoxes) :
          RunnerSave(t, io_ok, n)
    \/ \E t \in Threads : RunnerCompleteStatus(t)
    \/ \E t \in Threads : RunnerCompleteStore(t)
    \/ \E t \in Threads : RunnerInnerExcept(t)
    \/ \E t \in Threads : RunnerOuterExcept(t)
    \/ \E t \in Threads, rm_ok \in BOOLEAN : RunnerFinally(t, rm_ok)

SpecResult == InitRun /\ [][NextResult]_vars

----------------------------------------------------------------------------
(* The executor scheduled fairly.  The jobs the async submit has accepted  *)
(* wait in the executor's queue in the order of their acceptance; at most  *)
(* MAX_CONCURRENT_JOBS of them are queued, the others were cancelled       *)
(* before a later one was admitted.  Cancel requests go on arriving at any *)
(* time.  An executor thread that can take a step eventually takes one: a  *)
(* free thread takes the next task of the queue, and a stage of the        *)
(* pipeline ends, by returning or by raising (the validation, the tile     *)
(* stage and the merger raise here; the save of the result and the removal *)
(* of the temp directory succeed).  Nothing is assumed of the clients.     *)

LiveJobIds == {JobX} \cup Uuids

\* the record of a job after create_job, and after cancel_job at time 0
AcceptedJob(job_id, polygon, is_cancelled) ==
    LET created == create_job(<<>>, job_id, polygon)
    IN  IF is_cancelled THEN cancel_job(created, job_id, 0)[job_id]
                        ELSE created[job_id]

InitLive ==
    /\ model = "loaded"
    /\ now = 0
    /\ worker = [t \in Threads |-> IdleWorker]
    /\ tiles = [p \in Pipelines |-> NoTiles]
    /\ pool = [p \in Pipelines |-> [k \in TileThreads |-> IdleTileThread]]
    /\ req = Idle
    /\ resp = NoResponse
    /\ temp_dirs = {}
    /\ cleanup_warnings = {}
    /\ merger = NoMerger
    /\ session = NoSession
    /\ \E accepted \in SUBSET LiveJobIds :
       \E order \in Orderings(accepted) :
       \E cancelled_before \in SUBSET accepted :
       \E polygons \in [accepted -> {"polygon"}] :
          /\ accepted # {}
          /\ Cardinality(accepted \ cancelled_before) <= MAX_CONCURRENT_JOBS
          /\ active_jobs = [job_id \in accepted |->
                                AcceptedJob(job_id, polygons[job_id],
                                            job_id \in cancelled_before)]
          /\ work_queue = order
          /\ cancelled = cancelled_before

\* the numbers of tiles and of buildings the stages of these runs yield
LiveCounts == {0, 1}

\* the next step of executor thread t
RunnerStep(t) ==
    \/ RunnerStart(t)
    \/ RunnerGetJob(t)
    \/ RunnerUpdate(t)
    \/ RunnerMkdtemp(t)
    \/ \E io_ok \in BOOLEAN : RunnerValidate(t, io_ok)
    \/ \E ntiles \in LiveCounts : RunnerPlan(t, ntiles)
    \/ \E dets \in TileResultLists(Range(tiles[t].todo)) : RunnerTiles(t, dets)
    \/ RunnerRaise(t)
    \/ \E n \in LiveCounts : RunnerMerge(t, n)
    \/ \E io_ok \in {TRUE}, n \in LiveCounts :
          RunnerSave(t, io_ok, n)
    \/ RunnerComplete(t)
    \/ RunnerInnerExcept(t)
    \/ RunnerOuterExcept(t)
    \/ \E rm_ok \in {TRUE} : RunnerFinally(t, rm_ok)

NextLive ==
    \/ \E job_id \in {JobX} : CancelReceive(job_id)
    \/ CancelApply
    \/ \E t \in Threads : RunnerStart(t)
    \/ \E t \in Threads : RunnerGetJob(t)
    \/ \E t \in Threads : RunnerUpdate(t)
    \/ \E t \in Threads : RunnerMkdtemp(t)
    \/ \E t \in Threads, io_ok \in BOOLEAN : RunnerValidate(t, io_ok)
    \/ \E t \in Threads, ntiles \in LiveCounts : RunnerPlan(t, ntiles)
    \/ \E t \in Threads :
          \E dets \in TileResultLists(Range(tiles[t].todo)) :
              RunnerTiles(t, dets)
    \/ \E t \in Threads : RunnerRaise(t)
    \/ \E t \in Threads, n \in LiveCounts : RunnerMerge(t, n)
    \/ \E t \in Threads, io_ok \in {TRUE}, n \in LiveCounts :
          RunnerSave(t, io_ok, n)
    \/ \E t \in Threads : RunnerComplete(t)
    \/ \E t \in Threads : RunnerInnerExcept(t)
    \/ \E t \in Threads : RunnerOuterExcept(t)
    \/ \E t \in Threads, rm_ok \in {TRUE} : RunnerFinally(t, rm_ok)

FairExecutor == \A t \in Threads : WF_vars(RunnerStep(t))

SpecLive == InitLive /\ [][NextLive]_vars /\ FairExecutor

----------------------------------------------------------------------------
(* The union pass alone, on every list of connections up to the bounds *)

InitUnion ==
    /\ active_jobs = <<>>
    /\ model = "loaded"
    /\ now = 0
    /\ work_queue = <<>>
    /\ worker = [t \in Threads |-> IdleWorker]
    /\ tiles = [p \in Pipelines |-> NoTiles]
    /\ pool = [p \in Pipelines |-> [k \in TileThreads |-> IdleTileThread]]
    /\ req = Idle
    /\ resp = NoResponse
    /\ cancelled = {}
    /\ temp_dirs = {}
    /\ cleanup_warnings = {}
    /\ session = NoSession
    /\ \E n \in 1..MaxDetections :
       \E all_connections \in ConnectionInputs(n) :
       \E allowed_merge_phases \in AllowedPhaseInputs :
          merger = [pc |-> "start",
                    n_detections |-> n,
                    recorded |-> all_connections,
                    all_connections |-> all_connections,
                    allowed_merge_phases |-> allowed_merge_phases,
                    uf |-> UnionFind(0),
                    processed_connections |-> 0,
                    components |-> <<>>]

\* a call of merge_overlapping_detections: the detections are analysed
\* pair by pair; without a detection the function returns at once
MergerFindConnections ==
    /\ merger.pc = "input"
    /\ LET individual_detections ==
               convert_tile_detections_to_shapely_polygons(
                   merger.all_detections_raw_per_tile)
           all_connections ==
               _find_all_connections(individual_detections,
                                     merge_iou_threshold,
                                     merger.touch_enabled,
                                     merger.min_edge_distance_deg)
       IN  merger' = [merger EXCEPT
               !.pc = IF individual_detections = <<>> THEN "done"
                                                       ELSE "start",
               !.individual_detections = individual_detections,
               !.n_detections = Len(individual_detections),
               !.recorded = all_connections,
               !.all_connections = all_connections]
    /\ UNCHANGED <<active_jobs, model, now, work_queue, worker, tiles, pool,
                   req, resp, cancelled, temp_dirs, cleanup_warnings, session>>

NextUnion ==
    \/ MergerSort
    \/ MergerConnection
    \/ MergerComponents

SpecUnion == InitUnion /\ [][NextUnion]_vars

----------------------------------------------------------------------------
(* merge_overlapping_detections as _process_merging_phase calls it, on     *)
(* every list of tile results up to the bounds: the tiles in any order,    *)
(* each with one of the box lists, merging by edge distance off or at its  *)
(* default.                                                                *)

MergeBoxInputs == {<<>>, <<BoxE>>, <<BoxW>>, <<BoxSW>>, <<BoxW1>>, <<BoxSW1>>,
                   <<BoxW, BoxW1, BoxSW>>, <<BoxE, BoxNW>>}

MinEdgeDistanceInputs == {0, merge_min_edge_distance_deg}

InitMerge ==
    /\ active_jobs = <<>>
    /\ model = "loaded"
    /\ now = 0
    /\ work_queue = <<>>
    /\ worker = [t \in Threads |-> IdleWorker]
    /\ tiles = [p \in Pipelines |-> NoTiles]
    /\ pool = [p \in Pipelines |-> [k \in TileThreads |-> IdleTileThread]]
    /\ req = Idle
    /\ resp = NoResponse
    /\ cancelled = {}
    /\ temp_dirs = {}
    /\ cleanup_warnings = {}
    /\ session = NoSession
    /\ \E done_tiles \in SUBSET Range(GridTiles) :
       \E order \in Orderings(done_tiles) :
       \E source \in [done_tiles -> MergeBoxInputs] :
       \E touch_enabled \in BOOLEAN :
       \E min_edge_distance_deg \in MinEdgeDistanceInputs :
          merger = [pc |-> "input",
                    all_detections_raw_per_tile |->
                        [k \in 1..Len(order) |->
                            TileDetections(source, order[k])],
                    touch_enabled |-> touch_enabled,
                    min_edge_distance_deg |-> min_edge_distance_deg,
                    individual_detections |-> <<>>,
                    n_detections |-> 0,
                    recorded |-> <<>>,
                    all_connections |-> <<>>,
                    allowed_merge_phases |-> {1, 2},
                    uf |-> UnionFind(0),
                    processed_connections |-> 0,
                    components |-> <<>>]

NextMerge ==
    \/ MergerFindConnections
    \/ MergerSort
    \/ MergerConnection
    \/ MergerComponents

SpecMerge == InitMerge /\ [][NextMerge]_vars

----------------------------------------------------------------------------
(* Detection sessions alone, on every input up to the bounds *)

InitExport ==
    /\ active_jobs = <<>>
    /\ model = "loaded"
    /\ now = 0
    /\ work_queue = <<>>
    /\ worker = [t \in Threads |-> IdleWorker]
    /\ tiles = [p \in Pipelines |-> NoTiles]
    /\ pool = [p \in Pipelines |-> [k \in TileThreads |-> IdleTileThread]]
    /\ req = Idle
    /\ resp = NoResponse
    /\ cancelled = {}
    /\ temp_dirs = {}
    /\ cleanup_warnings = {}
    /\ merger = NoMerger
    /\ \E target_polygon \in RequestPolygons :
       \E source \in [Range(get_tiles_for_polygon(target_polygon))
                         -> TileBoxInputs] :
       \E batch_size \in BatchSizes, enable_merging \in BOOLEAN :
          session = [pc |-> "start",
                     target_polygon |-> target_polygon,
                     source |-> source,
                     batch_size |-> batch_size,
                     enable_merging |-> enable_merging,
                     run |-> 0,
                     disk |-> {},
                     saved_at_start |-> {},
                     all_detections_raw_per_tile |-> <<>>,
                     tile_batches |-> <<>>,
                     pending |-> {},
                     processed |-> {},
                     detections |-> <<>>,
                     buildings |-> <<>>]

NextExport ==
    \/ \E glob_order \in Orderings(Range(GridTiles)) :
          SessionBegin(glob_order)
    \/ \E b \in 1..MaxGridTiles : SessionBatchCompleted(b)
    \/ \E b \in 0..MaxGridTiles, k \in 0..MaxGridTiles :
          SessionStop(b, k)
    \/ SessionFinish

SpecExport == InitExport /\ [][NextExport]_vars

----------------------------------------------------------------------------
(* Properties *)

ActiveStatus == {"queued", "processing"}

\* C1: in every reachable state the number of jobs in the table whose status
\* is queued or processing is at most MAX_CONCURRENT_JOBS.
C1_AtMostNJobs ==
    Cardinality({j \in DOMAIN active_jobs :
                    active_jobs[j].status \in ActiveStatus})
        <= MAX_CONCURRENT_JOBS

\* C2: once a job's status is completed, failed or cancelled, no later step
\* changes its status, progress, stage, end_time, error_message or stored
\* result.
C2_TerminalFrozen ==
    [][\A j \in DOMAIN active_jobs :
          Terminal(active_jobs[j].status) =>
              /\ j \in DOMAIN active_jobs'
              /\ active_jobs'[j].status = active_jobs[j].status
              /\ active_jobs'[j].progress = active_jobs[j].progress
              /\ active_jobs'[j].stage = active_jobs[j].stage
              /\ active_jobs'[j].end_time = active_jobs[j].end_time
              /\ active_jobs'[j].error_message = active_jobs[j].error_message
              /\ active_jobs'[j].result_data = active_jobs[j].result_data]_vars

\* C3: the cancel operation turns a job to cancelled only if its status is
\* queued or processing at the moment of the change; for a job that is
\* completed, failed or cancelled at that moment the request is answered 409
\* and the job is left unchanged.
C3_CancelOnlyActive ==
    [][(req.op = "cancel" /\ req'.op = "idle") =>
          LET j == req.job_id[1]
          IN  IF active_jobs[j].status \in ActiveStatus
              THEN active_jobs'[j].status = "cancelled" /\ resp'.code = 200
              ELSE active_jobs' = active_jobs /\ resp'.code = 409]_vars

\* C4: after the cancel of a job has succeeded, the job's runner announces no
\* later stage, starts no tile batch and does not call complete_job; a job
\* cancelled while still queued is not processed at all.
C4_CancelStopsPipeline ==
    [][\A t \in Threads :
          (worker[t].job_id \in cancelled /\ worker'[t] # worker[t]) =>
              /\ worker[t].pc \notin DOMAIN UpdateCall \cup {"p75"}
              /\ worker[t].pc \notin {"tiles", "complete"}
              /\ worker[t].pc = "get_job" => worker'[t].pc = "idle"]_vars

\* C5: at no time do two threads execute the detector call simultaneously,
\* whichever pipelines they belong to.
C5_DetectSerialized ==
    Cardinality({pk \in Pipelines \X TileThreads :
                    pool[pk[1]][pk[2]].pc = "detect"}) <= 1

\* C6: a submit is refused with 429 exactly when the number of queued or
\* processing jobs is >= MAX_CONCURRENT_JOBS when the handler reads it; a
\* refused submit adds no job and schedules no work; and the submit that
\* follows a successful cancel is not refused for capacity.
C6_CapacityRefusal ==
    [][/\ (req.op = "idle" /\ resp' # resp /\ resp'.op = "submit"
              /\ resp'.code = 429) =>
              /\ get_active_job_count(active_jobs) >= MAX_CONCURRENT_JOBS
              /\ active_jobs' = active_jobs
              /\ work_queue' = work_queue
       /\ (req.op = "idle" /\ (req'.op = "submit" \/ resp'.code = 503)) =>
              get_active_job_count(active_jobs) < MAX_CONCURRENT_JOBS
       /\ (req.op = "idle" /\ resp.op = "cancel" /\ resp.code = 200
              /\ resp'.op = "submit") =>
              resp'.code # 429]_vars

\* A submit step that answers a request whose custom job_id is a key of the
\* job table.
DuplicateAnswered ==
    /\ resp' # resp
    /\ resp'.op = "submit"
    /\ resp'.job_id # None
    /\ resp'.job_id[1] \in DOMAIN active_jobs

WellFormedJobId(id) ==
    /\ Len(id) \in 3..50
    /\ \A i \in 1..Len(id) :
           id[i] \in AsciiLetters \cup AsciiDigits \cup {"-", "_"}
    /\ id[1] \in AsciiLetters \cup AsciiDigits
    /\ id[Len(id)] \in AsciiLetters \cup AsciiDigits

\* C8: a custom job_id passes the format checks of the submit iff it is well
\* formed; any other id is answered 422, and that request creates no job and
\* schedules no work; every job created under a custom id has a well-formed
\* id.
C8_JobIdFormat ==
    [][/\ (req.op = "idle" /\ resp' # resp /\ resp'.op = "submit"
              /\ resp'.job_id # None) =>
              /\ resp'.code = 422 <=> ~WellFormedJobId(resp'.job_id[1])
              /\ resp'.code = 422 =>
                     active_jobs' = active_jobs /\ work_queue' = work_queue
       /\ (req.op = "idle" /\ req'.op = "submit" /\ req'.job_id # None) =>
              WellFormedJobId(req'.job_id[1])
       /\ (req.op = "submit" /\ req'.op = "idle" /\ req.job_id # None) =>
              /\ ValidationService_validate_job_id_format(req.job_id[1])
              /\ resp'.code \in {200, 400, 409}
       /\ \A j \in DOMAIN active_jobs' \ DOMAIN active_jobs :
              j \in Uuids \/ WellFormedJobId(j)]_vars

\* C8 witness: a job exists under the longest well-formed id and an id one
\* character longer has just been answered 422.
C8_Witness ==
    /\ Repeat("x", 50) \in DOMAIN active_jobs
    /\ resp = [op |-> "submit", code |-> 422,
               job_id |-> Some(Repeat("x", 51)), body |-> None]

\* C9: over any sequence of update_job_progress calls the stored progress of
\* a job never decreases and always lies in 0..100.
C9_ProgressMonotoneClamped ==
    [][\A j \in DOMAIN active_jobs :
          j \in DOMAIN active_jobs' =>
              /\ active_jobs'[j].progress >= active_jobs[j].progress
              /\ active_jobs'[j].progress \in 0..100]_vars

\* C10: in every state between job-manager operations, called in any order
\* with any arguments, a job whose status is completed has progress 100, an
\* end_time and a stored result.
C10_CompletedRecord ==
    \A j \in DOMAIN active_jobs :
        active_jobs[j].status = "completed" =>
            /\ active_jobs[j].progress = 100
            /\ active_jobs[j].end_time # None
            /\ active_jobs[j].result_data # None

\* C10 witness: complete_job has been called and the job is completed.
C10_Witness ==
    /\ JobX \in DOMAIN active_jobs
    /\ active_jobs[JobX].status = "completed"
    /\ active_jobs[JobX].end_time = Some(MaxTime)

\* the runner on thread t returns (its finally block has run)
RunnerReturns(t) == worker[t].pc = "finally" /\ worker'[t].pc = "idle"

\* C11: when a stage of the runner from tile processing on has raised, the
\* job's status at the return of the runner is failed, with an
\* error_message: not processing, not completed.
C11_RaiseEndsFailed ==
    [][\A t \in Threads :
          (RunnerReturns(t) /\ worker[t].raised) =>
              /\ active_jobs'[worker[t].job_id].status = "failed"
              /\ active_jobs'[worker[t].job_id].error_message # None]_vars

ResultCode(status) ==
    CASE status \in {"queued", "processing"} -> 202
      [] status = "failed" -> 422
      [] status = "cancelled" -> 410
      [] status = "completed" -> 200

\* C13: the result endpoint answers 404 for an unknown id and otherwise
\* the code that belongs to the job's status (202 queued or processing,
\* 422 failed, 410 cancelled, 200 completed, with the stored result); the
\* status endpoint answers 404 exactly for an unknown id; no step of
\* either handler changes the job table.
C13_ResultByStatus ==
    [][/\ (req.op = "idle" /\ resp' # resp /\ resp'.op \in {"result", "status"}) =>
              /\ resp'.code = 404 <=> resp'.job_id[1] \notin DOMAIN active_jobs
              /\ active_jobs' = active_jobs
       /\ (req.op = "idle" /\ req'.op = "result") =>
              /\ req'.job_id[1] \in DOMAIN active_jobs
              /\ active_jobs' = active_jobs
       /\ (req.op = "result" /\ req' # req) => active_jobs' = active_jobs
       /\ (req.op = "result" /\ req'.op = "idle") =>
              LET job == active_jobs[req.job_id[1]]
              IN  /\ resp'.code = ResultCode(job.status)
                  /\ resp'.code = 200 => resp'.body = job.result_data]_vars

\* C14: an async submit whose polygon holds no Polygon/MultiPolygon is
\* rejected at submit time (400, or 409 when its custom id is taken first),
\* creates no job and schedules no work.
C14_InvalidPolygonRejected ==
    [][(req.op = "submit" /\ req'.op = "idle" /\ req.polygon = "no_polygon") =>
           /\ resp'.code \in {400, 409}
           /\ active_jobs' = active_jobs
           /\ work_queue' = work_queue]_vars

\* two detections of the merge call are endpoints of one recorded connection
\* whose phase is allowed
AllowedEdge(i, j) ==
    \E k \in 1..Len(merger.recorded) :
        /\ {merger.recorded[k][1], merger.recorded[k][2]} = {i, j}
        /\ merger.recorded[k][4] \in merger.allowed_merge_phases

\* the detections linked to one of S by a chain of allowed connections
RECURSIVE Chain(_)
Chain(S) ==
    LET T == S \cup {j \in 0..(merger.n_detections - 1) :
                        \E i \in S : AllowedEdge(i, j)}
    IN  IF T = S THEN S ELSE Chain(T)

ComponentOf(i) ==
    {p \in 1..Len(merger.components) :
        \E q \in 1..Len(merger.components[p].indices) :
            merger.components[p].indices[q] = i}

\* C19: after the union pass two detections are in the same component iff a
\* chain of recorded connections with allowed phases links them (so (A,B) and
\* (B,C) allowed put A, B, C together and a connection of a phase that is not
\* allowed merges nothing); every detection is in exactly one component and
\* there are at most as many components as detections.
C19_UnionFindComponents ==
    merger.pc = "done" =>
        LET D == 0..(merger.n_detections - 1)
        IN  /\ \A i \in D : Cardinality(ComponentOf(i)) = 1
            /\ \A i \in D :
                  {j \in D : ComponentOf(i) = ComponentOf(j)} = Chain({i})
            /\ Len(merger.components) <= merger.n_detections
            /\ merger.uf.components = Len(merger.components)

\* C19 witness: with phases {1, 2} allowed, connections (0,1) and (1,2) of
\* allowed phases were recorded, none of an allowed phase between 0 and 2,
\* and the pass has put 0, 1, 2 into one component.
C19_Witness ==
    /\ merger.pc = "done"
    /\ merger.allowed_merge_phases = {1, 2}
    /\ merger.n_detections = 3
    /\ AllowedEdge(0, 1) /\ AllowedEdge(1, 2) /\ ~AllowedEdge(0, 2)
    /\ merger.components = <<[root |-> 0, indices |-> <<0, 1, 2>>]>>

\* the tiles of the session's polygon and the list a run returns when its
\* tiles' results arrive in the order given
SessionTiles == get_tiles_for_polygon(session.target_polygon)

RECURSIVE ConcatBatches(_, _)
ConcatBatches(tile_batches, order) ==
    IF order = <<>>
    THEN <<>>
    ELSE process_tile_batch(session.source, tile_batches[Head(order)])
         \o ConcatBatches(tile_batches, Tail(order))

CleanRunBuildings(order) ==
    FinalBuildings(
        ConcatBatches(create_batches(SessionTiles, session.batch_size), order),
        session.enable_merging, session.target_polygon)

\* C15: the k-th emitted building has the id k: ids are 1..N without gaps or
\* repeats, whatever the containment filter dropped.
C15_IdsOneToN ==
    session.pc = "done" =>
        \A k \in 1..Len(session.buildings) : session.buildings[k].id[2] = k

\* C16: the emitted list is in top-left-first order: latitude descending and,
\* for equal latitudes, longitude ascending.
C16_TopLeftOrder ==
    session.pc = "done" =>
        \A i, j \in 1..Len(session.buildings) :
            i < j =>
                /\ session.buildings[i].latitude
                       >= session.buildings[j].latitude
                /\ session.buildings[i].latitude
                       = session.buildings[j].latitude
                   => session.buildings[i].longitude
                          <= session.buildings[j].longitude

\* C17: for the same polygon, parameters and detector outputs the final list
\* of a clean run is the same, ids included, in whatever order the batches
\* complete: it is the list of the run whose batches complete in the order
\* they were submitted.
C17_OrderIndependent ==
    (session.pc = "done" /\ session.run = 1) =>
        session.buildings =
            CleanRunBuildings(
                [b \in DOMAIN create_batches(SessionTiles,
                                             session.batch_size) |-> b])

\* C18: a run stopped after some tiles were persisted and run again with
\* resume on the same directory ends with a list that a clean run produces,
\* and the second run processes no tile whose detailed file was on disk.
C18_ResumeIdempotent ==
    (session.pc = "done" /\ session.run = 2) =>
        /\ \E order \in Orderings(DOMAIN create_batches(SessionTiles,
                                                        session.batch_size)) :
              session.buildings = CleanRunBuildings(order)
        /\ session.processed \cap session.saved_at_start = {}

\* C20: every emitted building is a merged building whose centroid the
\* request polygon contains, and every merged building whose centroid the
\* polygon contains is emitted, with that centroid as its coordinates.
C20_ContainmentFilter ==
    session.pc = "done" =>
        LET Inside(d) == PolygonContains(session.target_polygon,
                                         Centroid2(d.coordinates))
            Emits(b, d) ==
                /\ b.id = DisplayId(d.id)
                /\ b.longitude = round8(Centroid2(d.coordinates)[1])
                /\ b.latitude = round8(Centroid2(d.coordinates)[2])
        IN  /\ \A b \in Range(session.buildings) :
                  \E d \in Range(session.detections) :
                      Inside(d) /\ Emits(b, d)
            /\ \A d \in Range(session.detections) :
                  Inside(d) =>
                      \E b \in Range(session.buildings) : Emits(b, d)

\* C20 witness: a session ended with a building merged from two detections
\* whose centroid is inside the polygon and another building whose centroid
\* is outside, and exactly the first was emitted.
C20_Witness ==
    /\ session.pc = "done"
    /\ session.enable_merging
    /\ Len(session.detections) = 2
    /\ Len(session.buildings) = 1
    /\ \E d \in Range(session.detections) :
          /\ d.original_count = 2
          /\ PolygonContains(session.target_polygon, Centroid2(d.coordinates))
          /\ session.buildings[1].id = DisplayId(d.id)
    /\ \E d \in Range(session.detections) :
          ~PolygonContains(session.target_polygon, Centroid2(d.coordinates))

----------------------------------------------------------------------------
\* the runner on thread t has finished a run in which the tile stage
\* returned no detection (no tile at all, or no box in any tile), nothing
\* raised and no cancel request was applied to the job
EmptyRunEnds(t) ==
    /\ worker[t].pc = "finally"
    /\ worker[t].tile_counts # None
    /\ worker[t].tile_counts[1].total_buildings_so_far = 0
    /\ ~worker[t].raised
    /\ worker[t].job_id \notin cancelled

\* C21: a job whose polygon yields zero tiles, and a job whose tiles return
\* no detection, ends with status completed, progress 100 and a result of
\* 0 buildings, not failed (in a run where no file operation fails and no
\* cancel request is applied).
C21_EmptyJobCompletes ==
    \A t \in Threads :
        EmptyRunEnds(t) =>
            LET job == active_jobs[worker[t].job_id]
            IN  /\ job.status = "completed"
                /\ job.progress = 100
                /\ job.result_data = Some([total_buildings |-> 0])

\* both cases occur: a finished run without tiles, and one with a tile
\* and no detection
C21_Witness ==
    \E t \in Threads :
        /\ EmptyRunEnds(t)
        /\ worker[t].tile_counts[1].total_tiles = 0
        /\ active_jobs[worker[t].job_id].status = "completed"

C21_WitnessNoDetections ==
    \E t \in Threads :
        /\ EmptyRunEnds(t)
        /\ worker[t].tile_counts[1].total_tiles > 0
        /\ active_jobs[worker[t].job_id].status = "completed"

----------------------------------------------------------------------------
\* the jobs the statement has cleanup_old_jobs remove: terminal, with an
\* end_time more than max_age_hours ago
OldTerminalJobs(max_age_hours) ==
    {j \in DOMAIN active_jobs :
        /\ Terminal(active_jobs[j].status)
        /\ active_jobs[j].end_time # None
        /\ now - active_jobs[j].end_time[1] > max_age_hours}

\* C22: a step that removes jobs from the table (cleanup_old_jobs is the
\* one operation that does) removes exactly the jobs whose status is
\* terminal and whose end_time is older than the age it was called with,
\* hence no queued or processing job, and leaves every other record as it
\* was.
C22_CleanupRemovesOldTerminal ==
    [][DOMAIN active_jobs' # DOMAIN active_jobs
       /\ DOMAIN active_jobs' \subseteq DOMAIN active_jobs
       => /\ \E max_age_hours \in MaxAgeInputs :
                DOMAIN active_jobs \ DOMAIN active_jobs'
                    = OldTerminalJobs(max_age_hours)
          /\ \A j \in DOMAIN active_jobs \ DOMAIN active_jobs' :
                active_jobs[j].status \notin ActiveStatus
          /\ \A j \in DOMAIN active_jobs' :
                active_jobs'[j] = active_jobs[j]]_vars

----------------------------------------------------------------------------
\* the runner on thread t reports from the tile-processing stage: the
\* updates "Processing N tiles" and "Processed N tiles"
TileStageUpdate(t) ==
    \/ worker[t].pc = "p35" /\ worker'[t].pc = "tiles"
    \/ worker[t].pc = "p75" /\ worker'[t].pc = "p80"

\* C23: while the runner of a job runs, under racing cancel, status and
\* result requests, the job's progress never decreases from one state to
\* the next (so not between any two observations), the updates of the
\* tile-processing stage store values within 35..75, and a run that
\* raised nowhere has progress 100 when the runner returns.
C23_ProgressNonDecreasing ==
    [][/\ \A j \in DOMAIN active_jobs :
             active_jobs'[j].progress >= active_jobs[j].progress
       /\ \A t \in Threads :
             TileStageUpdate(t) =>
                 active_jobs'[worker[t].job_id].progress \in 35..75
       /\ \A t \in Threads :
             (RunnerReturns(t) /\ worker[t].tile_counts # None
                               /\ ~worker[t].raised) =>
                 active_jobs'[worker[t].job_id].progress = 100]_vars

\* the tile stage has reported a value above 35 for processed tiles
C23_Witness ==
    \E t \in Threads :
        /\ worker[t].pc = "p80"
        /\ tiles[t].all_detections # <<>>
        /\ active_jobs[worker[t].job_id].progress = TileProgress(t)
        /\ active_jobs[worker[t].job_id].progress \in 36..75

----------------------------------------------------------------------------
\* the tile processor's result list, and how often a tile id occurs in it
ResultList == tiles[1].all_detections

Occurrences(x) ==
    Cardinality({k \in DOMAIN ResultList : ResultList[k].tile = x})

\* the tiles whose detailed file was loaded on resume
LoadedTiles ==
    IF session.resume_from_saved
    THEN {session.saved_tile_results[k].tile :
             k \in DOMAIN session.saved_tile_results}
    ELSE {}

\* the tiles submitted to the worker pool (tiles_to_process)
SubmittedTiles == Range(tiles[1].todo)

----------------------------------------------------------------------------
\* the number of the batch tile x was submitted in
BatchOf(x) ==
    CHOOSE b \in DOMAIN tiles[1].tile_batches :
        x \in Range(tiles[1].tile_batches[b])

\* the submitted tiles that had no error of their own and whose batch
\* raised nothing in the collector
SurvivingTiles ==
    {x \in SubmittedTiles :
        /\ x \notin tiles[1].tile_errors
        /\ tiles[1].tile_batches # <<>> => BatchOf(x) \notin tiles[1].batch_errors}

\* C25: when the tile processor has returned, its result list holds,
\* besides the loaded tiles, exactly the submitted tiles that had no
\* error in fetch or detect and whose batch raised no exception: a tile's
\* error removes that tile alone, a batch's exception that batch alone,
\* every other batch is collected, and the call returns its list (it does
\* not raise, so the job does not fail).
C25_TileFailureIsolated ==
    /\ tiles[1].pc = "returned" =>
          /\ {ResultList[k].tile : k \in DOMAIN ResultList}
                = LoadedTiles \cup SurvivingTiles
          /\ tiles[1].completed_batches = tiles[1].nbatches
    /\ tiles[1].pc = "collect" =>
          \A b \in DOMAIN tiles[1].tile_batches :
              \/ b \in {q.idx : q \in Range(tiles[1].queue)}
              \/ \E k \in TileThreads : pool[1][k].idx = b
              \/ b \in {f.idx : f \in tiles[1].done}
              \/ Range(tiles[1].tile_batches[b]) \cap SurvivingTiles
                    \subseteq {ResultList[k].tile : k \in DOMAIN ResultList}

\* the call has returned after an error of one tile and an exception of
\* one batch, with a tile of that tile's batch and further tiles in the list
C25_Witness ==
    /\ tiles[1].pc = "returned"
    /\ tiles[1].tile_errors # {}
    /\ \E x \in tiles[1].tile_errors, y \in SurvivingTiles :
          BatchOf(x) = BatchOf(y)

C25_WitnessBatch ==
    /\ tiles[1].pc = "returned"
    /\ tiles[1].batch_errors # {}
    /\ SurvivingTiles # {}

----------------------------------------------------------------------------
\* the detections a finished session handed to the merger, and the merged
\* buildings merge_overlapping_detections returns for them
MergerInput ==
    convert_tile_detections_to_shapely_polygons(
        session.all_detections_raw_per_tile)

MergedBuildings ==
    merge_overlapping_detections(MergerInput, merge_iou_threshold,
                                 merge_touch_enabled, merge_min_edge_distance_deg, {1, 2})

RECURSIVE SumCounts(_)
SumCounts(buildings) ==
    IF buildings = <<>>
    THEN 0
    ELSE Head(buildings).original_count + SumCounts(Tail(buildings))

\* C26: the merged buildings partition the input detections: every input
\* detection id is in the original_ids of exactly one building, a
\* building's original_count is the number of its original_ids, the counts
\* sum to the number of input detections, a building's confidence is the
\* greatest confidence of its members, the ids are merged_0, merged_1, ...
\* in the order of the list, and no input gives no building.
C26_MergedPartition ==
    (session.pc = "done" /\ session.enable_merging) =>
        LET dets == MergerInput
            merged == MergedBuildings
        IN  /\ \A i \in DOMAIN dets :
                  Cardinality({k \in DOMAIN merged :
                      dets[i].id \in Range(merged[k].original_ids)}) = 1
            /\ \A k \in DOMAIN merged :
                  LET members == {i \in DOMAIN dets :
                          dets[i].id \in Range(merged[k].original_ids)}
                  IN  /\ merged[k].original_count = Cardinality(members)
                      /\ merged[k].original_count
                            = Len(merged[k].original_ids)
                      /\ members # {}
                      /\ \E i \in members :
                            merged[k].confidence = dets[i].confidence
                      /\ \A i \in members :
                            merged[k].confidence >= dets[i].confidence
                      /\ merged[k].id = <<"merged_", k - 1>>
                      /\ session.detections[k].confidence
                            = merged[k].confidence
                      /\ session.detections[k].original_count
                            = merged[k].original_count
            /\ SumCounts(merged) = Len(dets)
            /\ Len(session.detections) = Len(merged)
            /\ dets = <<>> => merged = <<>>

\* a session has merged two detections of different confidence into one
\* building, the second of them the more confident, and kept another
\* building apart
C26_Witness ==
    /\ session.pc = "done"
    /\ session.enable_merging
    /\ Len(MergedBuildings) >= 2
    /\ \E k \in DOMAIN MergedBuildings :
          /\ MergedBuildings[k].original_count = 2
          /\ MergedBuildings[k].confidence
                > MergerInput[MergedBuildings[k].original_ids[1][2] + 1].confidence

----------------------------------------------------------------------------
\* the two detections of a recorded connection
Ends(connection) == {connection[1], connection[2]}

\* the conditions of the three phases for two detections of different
\* tiles: _check_iou_connection, _check_boundary_connection and
\* _check_proximity_connection
IsNear(p, q) ==
    /\ merger.min_edge_distance_deg > 0
    /\ 0 < EdgeDistance2(p, q)
    /\ EdgeDistance2(p, q)
          < merger.min_edge_distance_deg * merger.min_edge_distance_deg

PhaseHolds(phase, d1, d2) ==
    LET p == d1.polygon
        q == d2.polygon
        touching == merger.touch_enabled /\ Touches(p, q)
    IN  CASE phase = 1 ->
               /\ IntersectionArea(p, q) > 0
               /\ 1000 * IntersectionArea(p, q)
                     > merge_iou_threshold
                         * (RectArea(p) + RectArea(q) - IntersectionArea(p, q))
          [] phase = 2 ->
               /\ calculate_boundary_proximity(p, d1.tile_id, q, d2.tile_id)
                     > 700
               /\ touching \/ IsNear(p, q)
          [] phase = 3 -> touching \/ IsNear(p, q)

\* C28: the recorded connections hold at most one connection per
\* unordered pair of detections and none for two detections of one tile;
\* for two detections of different tiles the recorded phase is the lowest
\* phase whose condition holds (no connection when none holds); and two
\* detections of one tile that end in one component are joined by no
\* connection of their own, the component holding a detection of another
\* tile.
C28_OneEdgePerPair ==
    merger.pc # "input" =>
        LET dets == merger.individual_detections
            recorded == merger.recorded
        IN  /\ \A a, b \in DOMAIN recorded :
                  a # b => Ends(recorded[a]) # Ends(recorded[b])
            /\ \A a \in DOMAIN recorded :
                  dets[recorded[a][1] + 1].tile_id
                      # dets[recorded[a][2] + 1].tile_id
            /\ \A i, j \in DOMAIN dets :
                  (i < j /\ dets[i].tile_id # dets[j].tile_id) =>
                      LET holding == {ph \in Phases :
                                         PhaseHolds(ph, dets[i], dets[j])}
                          found == {a \in DOMAIN recorded :
                                       Ends(recorded[a]) = {i - 1, j - 1}}
                      IN  IF holding = {}
                          THEN found = {}
                          ELSE \E a \in found :
                                  /\ recorded[a][4] \in holding
                                  /\ \A ph \in holding : recorded[a][4] <= ph
            /\ merger.pc = "done" =>
                  \A k \in DOMAIN merger.components :
                      LET members == Range(merger.components[k].indices)
                      IN  \A i, j \in members :
                              (i # j /\ dets[i + 1].tile_id
                                           = dets[j + 1].tile_id) =>
                                  /\ \A a \in DOMAIN recorded :
                                        Ends(recorded[a]) # {i, j}
                                  /\ \E m \in members :
                                        dets[m + 1].tile_id
                                            # dets[i + 1].tile_id

\* a merge has ended with connections of phase 2 and of phase 3 recorded
\* and two detections of one tile in one component
C28_Witness ==
    /\ merger.pc = "done"
    /\ \E a, b \in DOMAIN merger.recorded :
          merger.recorded[a][4] = 2 /\ merger.recorded[b][4] = 3
    /\ \E k \in DOMAIN merger.components :
          \E i, j \in Range(merger.components[k].indices) :
              /\ i # j
              /\ merger.individual_detections[i + 1].tile_id
                    = merger.individual_detections[j + 1].tile_id

----------------------------------------------------------------------------
\* the components as sets of detections, each named by its tile and its box
PartitionOf(individual_detections, components) ==
    {{<<individual_detections[i + 1].tile_id,
        individual_detections[i + 1].polygon>> : i \in Range(c.indices)} :
        c \in Range(components)}

\* the partition merge_overlapping_detections makes of a list of tile results
MergePartition(all_detections_raw_per_tile) ==
    LET individual_detections ==
            convert_tile_detections_to_shapely_polygons(
                all_detections_raw_per_tile)
    IN  PartitionOf(individual_detections,
            _process_union_find_merging(
                _find_all_connections(individual_detections,
                                      merge_iou_threshold,
                                      merger.touch_enabled,
                                      merger.min_edge_distance_deg),
                Len(individual_detections),
                merger.allowed_merge_phases))

\* C27: the partition of the detections into components is the same for
\* every permutation of the list of tile results and for every order in
\* which the recorded connections are processed.
C27_PartitionOrderIndependent ==
    merger.pc = "done" =>
        LET actual == PartitionOf(merger.individual_detections,
                                  merger.components)
        IN  /\ \A permutation \in
                     Orderings(Range(merger.all_detections_raw_per_tile)) :
                  MergePartition(permutation) = actual
            /\ \A order \in Orderings(Range(merger.recorded)) :
                  PartitionOf(merger.individual_detections,
                      get_components(union_pass(
                          UnionFind(merger.n_detections), order,
                          merger.allowed_merge_phases))) = actual

\* a merge of two tile results has ended with three connections recorded
\* and a component of three detections
C27_Witness ==
    /\ merger.pc = "done"
    /\ Len(merger.all_detections_raw_per_tile) >= 2
    /\ Len(merger.recorded) >= 3
    /\ \E k \in DOMAIN merger.components :
          Len(merger.components[k].indices) >= 3

----------------------------------------------------------------------------
\* the result data the runner of a job passes to complete_job: what the
\* job record holds once it is stored, and before that what the runner in
\* complete_job is about to store
PassedToCompleteJob(job_id) ==
    IF active_jobs[job_id].result_data # None
    THEN active_jobs[job_id].result_data[1]
    ELSE LET t == CHOOSE t \in Threads :
                     /\ worker[t].pc = "complete_store"
                     /\ worker[t].job_id = job_id
         IN  [total_buildings |-> worker[t].found]

\* C29: a result request that finds its job completed returns the result
\* data that was passed to complete_job for the job, wherever its reads
\* of the job record fall between the assignments of complete_job.
C29_ResultIsCompleteJobs ==
    [][(req.op = "result" /\ req'.op = "idle" /\ resp'.code = 200) =>
          ReturnedResult(resp'.body) = PassedToCompleteJob(req.job_id[1])]_vars

----------------------------------------------------------------------------
\* the runner of an accepted job has returned: the task is neither waiting
\* in the executor's queue nor running on one of its threads
RunnerReturned(job_id) ==
    /\ job_id \notin Range(work_queue)
    /\ \A t \in Threads : worker[t].pc # "idle" => worker[t].job_id # job_id

\* every accepted job is in a terminal status and its runner has returned
AllJobsEnded ==
    \A job_id \in DOMAIN active_jobs :
        Terminal(active_jobs[job_id].status) /\ RunnerReturned(job_id)

\* C30: when the executor's threads are scheduled fairly and every stage
\* ends, every job the async submit has accepted eventually is, and from
\* then on stays, in a terminal status with its runner returned, also for
\* jobs accepted beyond the number of threads after a cancel freed capacity.
C30_AcceptedJobEnds == <>[]AllJobsEnded

\* more jobs were accepted than the executor has threads, one of them
\* cancelled, and all have ended with their runners returned
C30_Witness ==
    /\ Cardinality(DOMAIN active_jobs) > MAX_CONCURRENT_JOBS
    /\ cancelled # {}
    /\ AllJobsEnded
    /\ \E job_id \in DOMAIN active_jobs :
          active_jobs[job_id].status = "completed"

====
